---------------------------- MODULE Spec2Model ----------------------------
(***************************************************************************)
(* Verification model of vitter/iptv-sources.                              *)
(*                                                                         *)
(*   Spec        run_speed_tests / generate_results / cleanup of           *)
(*               src/udpxy/speedtest_integrated_new.py: the two-phase      *)
(*               speed test with its two thread pools and result files.    *)
(*   SpecDedupe  process_jsmpeg of src/Hotels/makecsv.py: search, read     *)
(*               the existing CSV, deduplicate_data, write the CSV, run    *)
(*               again on the written file.                                *)
(*   SpecSearch  the paging loops of the three FOFA API searches           *)
(*               (speedtest_integrated_new.py, udpxymobile.py, makecsv.py).*)
(*   SpecRun     the four searches of run() and their aggregation.         *)
(*   SpecVerify  filter_accessible_ips and what run() does with its        *)
(*               result.                                                   *)
(*   SpecSink    _initialize_result_files and _append_result_immediately   *)
(*               with failing writes.                                      *)
(*   SpecRetry   the sessions of the search requests and their retries.    *)
(*   SpecExtract the extractors of candidates from search hits.            *)
(*   SpecProbe   test_stream_speed: one download and its evaluation.       *)
(*   SpecOther   test_with_other_configs over long catalogs.               *)
(*   SpecStatus  get_udpxy_status and its parsers.                         *)
(*   FairSpec    Spec with fair scheduling, for termination.               *)
(*                                                                         *)
(* Every specification starts the components it does not exercise in a     *)
(* resting state and never changes them.                                   *)
(*                                                                         *)
(* Threads are modelled by interleaving: the main thread has a program     *)
(* counter pc, every submitted future has a state (pending, running,       *)
(* finished, cancelled) and the worker steps may fire whenever their       *)
(* future allows it.  The overall as_completed timeouts (180 s, 600 s) are *)
(* modelled as steps that may fire whenever as_completed is waiting with   *)
(* futures it has not yielded yet: wall-clock time is not counted.         *)
(***************************************************************************)
EXTENDS Integers, Sequences, FiniteSets, TLC

VARIABLES
    \* ---- run_speed_tests ------------------------------------------------
    ip_list,        \* argument of run_speed_tests (list of candidates)
    fast,           \* self.fast
    pc,             \* position of the main thread
    task1,          \* state of each phase-1 future (future_to_ip)
    res1,           \* value each finished phase-1 future holds
    task2,          \* state of each phase-2 future (future_to_data)
    res2,           \* value each finished phase-2 future holds
    idx2,           \* loop index i of test_with_other_configs per candidate
    tried2,         \* history: entries probed by test_with_other_configs
    waiter,         \* as_completed: waiter.finished_futures
    batch,          \* as_completed: the list being yielded
    unyielded,      \* as_completed: pending (futures not yet yielded)
    scan,           \* position of a "for future in future_to_..." loop
    failed_ips,     \* failed_ips
    speed_results,  \* speed_results
    speedtest_log,  \* lines of self.speedtest_log
    result_files,   \* lines of sum/tmp/{isp}_result_fofa_{city}.txt
    playlists,      \* blocks of sum/{isp}/{city}.txt
    \* ---- makecsv.py: process_jsmpeg --------------------------------------
    csv_file,       \* rows of the CSV file on disk
    new_data,       \* new_data (result of search_all_engines)
    existing_data,  \* existing_data (result of read_existing_csv)
    all_data,       \* all_data = existing_data + new_data
    host_unique_data, \* deduplicate_data: the list after the host stage
    final_data,     \* deduplicate_data: the returned list
    run_no,         \* how many times the program has been started
    dpc,            \* position in process_jsmpeg
    \* ---- FOFA API paging -------------------------------------------------
    engine,         \* which program's FOFA API search is running
    max_pages,      \* self.max_pages
    all_pages,      \* self.all_pages (udpxymobile.py only)
    page,           \* page
    total_pages,    \* total_pages
    actual_pages,   \* actual_pages
    requests,       \* number of page requests sent so far
    spc,            \* position in the search
    \* ---- run(): the four searches ---------------------------------------
    fofa_api_key,   \* self.fofa_api_key is set
    quake360_token, \* self.quake360_token is set
    zoomeye_api_key,     \* self.zoomeye_api_key is set
    zoomeye_cookie,      \* self.zoomeye_cookie is set
    cube_authorization,  \* self.cube_authorization is set
    hunter_api_key, \* self.hunter_api_key is set
    fofa_ips,       \* fofa_ips
    quake_ips,      \* quake_ips
    zoomeye_ips,    \* zoomeye_ips
    hunter_ips,     \* hunter_ips
    all_ips,        \* all_ips
    queried,        \* history: backends whose search_*_ips was called
    failed,         \* history: backends whose search ended in a failure
    rpc,            \* position in run()
    \* ---- filter_accessible_ips ------------------------------------------
    filter_list,    \* argument ip_list of filter_accessible_ips
    notest,         \* self.notest
    vtask,          \* position of each test_single_ip future
    vresult,        \* value each finished test_single_ip future holds
    connects,       \* history: results of test_port_connectivity's connect
    probes,         \* history: candidates test_udpxy_service was called for
    status_reqs,    \* history: candidates get_udpxy_status was called for
    collected,      \* futures as_completed has yielded
    accessible_ips, \* accessible_ips
    udpxy_ips,      \* udpxy_ips
    ipfile_sum,     \* lines of {city}_sum.ip
    ipfile_uniq,    \* lines of {city}_uniq.ip
    basic_report,   \* server list of {city}_basic_report.txt
    speed_input,    \* history: the list run() gave to run_speed_tests
    vpc,            \* position in filter_accessible_ips / run()
    \* ---- result handling of run_speed_tests, file operation by file
    \* ---- operation (SpecSink) ---------------------------------------------
    phase,          \* which phase's pool is running (1 or 2)
    htask,          \* state of each future of that pool
    hres,           \* value each finished future holds
    hstate,         \* how far the handling of each yielded future has come
    writers,        \* per output file: the threads that have it open to write
    write_failed,   \* history: (file, candidate, phase) of every failed write
    late,           \* history: what was probed or handled after a failed write
    \* ---- the HTTP requests of the two FOFA searches of the speed tester
    \* ---- (SpecRetry), together with the variables of SpecSearch ------------
    session,        \* "plain": requests.Session(); "retry": the retry session
    attempt,        \* re-requests the adapter has made for the current get()
    last,           \* history: page, status and retry number of the last request
    \* ---- the result extractors of the searches (SpecExtract)
    extractor,      \* which _extract_*_results function is applied
    hits,           \* its argument: results / data_list
    ip_ports,       \* the list it returns
    xpc,            \* position in the search function that calls it
    \* ---- one call of test_stream_speed (SpecProbe)
    ppc,            \* position in test_stream_speed
    status_code,    \* response.status_code (0 before the response)
    now,            \* time.time() - start_time, in microseconds
    downloaded_data,\* len(downloaded_data)
    received,       \* chunks iter_content has yielded
    probe_result,   \* what test_stream_speed returned
    raised,         \* an exception has left the function
    \* ---- test_with_other_configs over a long catalog (SpecOther)
    catalog_file,   \* rows of the *_province_list.txt files that are not of the default carrier and region
    cand,           \* the candidate whose test_with_other_configs runs
    loaded,         \* per candidate, len(remaining_configs) it built (-1 before)
    oc_i,           \* the loop variable i of the running search
    probed,         \* history: StreamProbes made for each candidate
    returned2,      \* what each search returned
    opc,            \* position in the running search
    \* ---- get_udpxy_status for one candidate classified as udpxy
    status_page,    \* the answer to GET /status and what the page holds
    status_info,    \* the dictionary get_udpxy_status returns
    status_line,    \* what filter_accessible_ips prints for the candidate
    status_udpxy,   \* udpxy_ips of the call
    status_pc       \* position in the call

speedVars == <<ip_list, fast, pc, task1, res1, task2, res2, idx2, tried2,
               waiter, batch, unyielded, scan, failed_ips, speed_results,
               speedtest_log, result_files, playlists>>

dedupeVars == <<csv_file, new_data, existing_data, all_data,
                host_unique_data, final_data, run_no, dpc>>

searchVars == <<engine, max_pages, all_pages, page, total_pages,
                actual_pages, requests, spc>>

runVars == <<fofa_api_key, quake360_token, zoomeye_api_key, zoomeye_cookie,
             cube_authorization, hunter_api_key, fofa_ips, quake_ips,
             zoomeye_ips, hunter_ips, all_ips, queried, failed, rpc>>

verifyVars == <<filter_list, notest, vtask, vresult, connects, probes,
                status_reqs, collected, accessible_ips, udpxy_ips,
                ipfile_sum, ipfile_uniq, basic_report, speed_input, vpc>>

sinkVars == <<phase, htask, hres, hstate, writers, write_failed, late>>

retryVars == <<session, attempt, last>>

extractVars == <<extractor, hits, ip_ports, xpc>>

probeVars ==
    <<ppc, status_code, now, downloaded_data, received, probe_result, raised>>

otherVars == <<catalog_file, cand, loaded, oc_i, probed, returned2, opc>>

statusVars == <<status_page, status_info, status_line, status_udpxy, status_pc>>

vars ==
    <<speedVars, dedupeVars, searchVars, runVars, verifyVars, sinkVars,
      retryVars,
      extractVars,
      probeVars,
      otherVars,
      statusVars>>

\* what the actions of each component leave alone
nonSpeedVars ==
    <<dedupeVars, searchVars, runVars, verifyVars,
     sinkVars, retryVars, extractVars, probeVars, otherVars, statusVars>>
nonDedupeVars ==
    <<speedVars, searchVars, runVars, verifyVars,
     sinkVars, retryVars, extractVars, probeVars, otherVars, statusVars>>
nonSearchVars ==
    <<speedVars, dedupeVars, runVars, verifyVars,
     sinkVars, retryVars, extractVars, probeVars, otherVars, statusVars>>
nonRunVars ==
    <<speedVars, dedupeVars, searchVars, verifyVars,
     sinkVars, retryVars, extractVars, probeVars, otherVars, statusVars>>
nonVerifyVars ==
    <<speedVars, dedupeVars, searchVars, runVars,
     sinkVars, retryVars, extractVars, probeVars, otherVars, statusVars>>

\* the resting state of each component
IdleSpeed ==
    /\ ip_list = <<>> /\ fast = FALSE /\ pc = "idle"
    /\ task1 = <<>> /\ res1 = <<>> /\ task2 = <<>> /\ res2 = <<>>
    /\ idx2 = <<>> /\ tried2 = <<>> /\ waiter = <<>> /\ batch = <<>>
    /\ unyielded = {} /\ scan = 0 /\ failed_ips = <<>>
    /\ speed_results = <<>> /\ speedtest_log = <<>>
    /\ result_files = <<>> /\ playlists = <<>>

IdleSink ==
    /\ phase = 0 /\ htask = <<>> /\ hres = <<>> /\ hstate = <<>>
    /\ writers = <<>> /\ write_failed = {} /\ late = {}

IdleRetry == session = "none" /\ attempt = 0 /\ last = <<>>

IdleExtract ==
    extractor = "none" /\ hits = <<>> /\ ip_ports = <<>> /\ xpc = "idle"

IdleProbe ==
    /\ ppc = "idle" /\ status_code = 0 /\ now = 0 /\ downloaded_data = 0
    /\ received = 0 /\ probe_result = <<>> /\ raised = FALSE

IdleOther ==
    /\ catalog_file = 0 /\ cand = 0 /\ loaded = <<>> /\ oc_i = 0
    /\ probed = <<>> /\ returned2 = <<>> /\ opc = "idle"

IdleStatus ==
    /\ status_pc = "idle" /\ status_page = <<>> /\ status_info = <<>>
    /\ status_line = <<>> /\ status_udpxy = <<>>

IdleDedupe ==
    /\ csv_file = <<>> /\ new_data = <<>> /\ existing_data = <<>>
    /\ all_data = <<>> /\ host_unique_data = <<>> /\ final_data = <<>>
    /\ run_no = 0 /\ dpc = "idle"

IdleSearch ==
    /\ engine = "none" /\ max_pages = 0 /\ all_pages = FALSE /\ page = 0
    /\ total_pages = 0 /\ actual_pages = 0 /\ requests = 0 /\ spc = "idle"

IdleRun ==
    /\ fofa_api_key = FALSE /\ quake360_token = FALSE
    /\ zoomeye_api_key = FALSE /\ zoomeye_cookie = FALSE
    /\ cube_authorization = FALSE /\ hunter_api_key = FALSE
    /\ fofa_ips = {} /\ quake_ips = {} /\ zoomeye_ips = {}
    /\ hunter_ips = {} /\ all_ips = {} /\ queried = <<>> /\ failed = {}
    /\ rpc = "idle"

IdleVerify ==
    /\ filter_list = <<>> /\ notest = FALSE /\ vtask = <<>>
    /\ vresult = <<>> /\ connects = <<>> /\ probes = {}
    /\ status_reqs = {} /\ collected = {} /\ accessible_ips = <<>>
    /\ udpxy_ips = <<>> /\ ipfile_sum = <<>> /\ ipfile_uniq = <<>>
    /\ basic_report = <<>> /\ speed_input = <<>> /\ vpc = "idle"

---------------------------------------------------------------------------
(* Bounds of the model *)

MaxCands == 2

Cands == 1 .. MaxCands

(* Program constants *)

Phase1Workers == 8
Phase2Workers == 3
MaxConfigTries == 96
\* speeds are counted in 1/1000 MB/s: 0.1 MB/s
MinWriteSpeed == 100

\* speeds a successful test_stream_speed may report (all within 0.05..1000 MB/s)
Speeds == {80, 200, 300}

\* the value None of a future that found nothing, as a result record
None == [ip |-> 0, speed |-> 0, cfg |-> 0]

---------------------------------------------------------------------------
(* Generic helpers *)

Range(s) == {s[i] : i \in 1 .. Len(s)}

IsPrefix(s, t) == Len(s) <= Len(t) /\ SubSeq(t, 1, Len(s)) = s

NoDup(s) == \A i, j \in 1 .. Len(s) : i # j => s[i] # s[j]

\* str.lower() on the names the model uses
Lower(s) ==
    CASE s = "Telecom" -> "telecom"
      [] s = "Unicom"  -> "unicom"
      [] s = "Mobile"  -> "mobile"
      [] s = "Hebei"   -> "hebei"
      [] s = "Beijing" -> "beijing"
      [] OTHER         -> s

---------------------------------------------------------------------------
(* The configuration catalog *)

\* self.isp / self.current_isp and self.region / self.current_region
current_isp == "Telecom"
current_region == "Hebei"

\* The rows of Telecom_province_list.txt, Unicom_province_list.txt and
\* Mobile_province_list.txt in the order _load_all_province_configs reads them.
all_configs ==
    << [isp |-> "Telecom", region |-> "Hebei",   city |-> "hb_t"],
       [isp |-> "Telecom", region |-> "Beijing", city |-> "bj_t"],
       [isp |-> "Unicom",  region |-> "hebei",   city |-> "hb_u"],
       [isp |-> "Mobile",  region |-> "Beijing", city |-> "bj_m"] >>

\* self.city: the city of the first row of the carrier's file whose region is
\* self.region
DefaultCity ==
    LET k == CHOOSE i \in 1 .. Len(all_configs) :
                 /\ all_configs[i].isp = current_isp
                 /\ all_configs[i].region = current_region
                 /\ \A j \in 1 .. (i - 1) :
                        ~(all_configs[j].isp = current_isp
                          /\ all_configs[j].region = current_region)
    IN all_configs[k].city

\* the filter of test_with_other_configs
IsDefaultConfig(config) ==
    /\ Lower(config.isp) = Lower(current_isp)
    /\ Lower(config.region) = Lower(current_region)

\* a faulty variant: the default entry not filtered out
unfiltered_configs == [i \in 1 .. Len(all_configs) |-> i]

\* remaining_configs, as the list of indices into all_configs
remaining_configs ==
    SelectSeq([i \in 1 .. Len(all_configs) |-> i],
              LAMBDA i : ~IsDefaultConfig(all_configs[i]))

---------------------------------------------------------------------------
(* Result files *)

\* (isp, city) names a result file and a playlist file
DefaultKey == <<current_isp, DefaultCity>>

ConfigKey(k) == <<all_configs[k].isp, all_configs[k].city>>

FileKeys == {DefaultKey} \cup {ConfigKey(k) : k \in 1 .. Len(all_configs)}

\* template/{isp}/template_{city}.txt exists
TemplateExists(key) == key # <<"Mobile", "bj_m">>

\* a result dictionary of test_stream_speed; cfg = 0 when it has no 'config'
Result(c, s, k) == [ip |-> c, speed |-> s, cfg |-> k]

ResultKey(r) == IF r.cfg = 0 THEN DefaultKey ELSE ConfigKey(r.cfg)

\* config_info: " [isp-region]" or ""
ConfigInfo(r) ==
    IF r.cfg = 0 THEN <<>>
    ELSE <<all_configs[r.cfg].isp, all_configs[r.cfg].region>>

ResultLine(r) == [speed |-> r.speed, ip |-> r.ip, tag |-> ConfigInfo(r)]

\* a line left in a file by an earlier run
StaleLine == [speed |-> 200, ip |-> 0, tag |-> <<>>]

\* a faulty variant: the file opened with 'w' instead of 'a'
OverwriteLine(f, line) == <<line>>

\* open(..., 'a') followed by one write
AppendLine(f, line) == Append(f, line)

\* _append_result_immediately: the result file after the call
AppendResultFile(files, r) ==
    IF r.speed <= MinWriteSpeed THEN files
    ELSE [files EXCEPT ![ResultKey(r)] = AppendLine(@, ResultLine(r))]

\* _append_result_immediately: the playlist file after the call
AppendPlaylist(lists, r) ==
    IF r.speed <= MinWriteSpeed THEN lists
    ELSE IF TemplateExists(ResultKey(r))
         THEN [lists EXCEPT ![ResultKey(r)] = AppendLine(@, r.ip)]
         ELSE lists

---------------------------------------------------------------------------
(* Futures and as_completed *)

\* a faulty variant: future.cancelled() asked instead of future.done()
FutureCancelledOnly(st) == st = "cancelled"

\* future.done(): cancelled or finished
FutureDone(st) == st \in {"finished", "cancelled"}

\* future.cancel(): only a pending future is cancelled
FutureCancel(st) == IF st = "pending" THEN "cancelled" ELSE st

Running(task) == {c \in Cands : task[c] = "running"}

\* the as_completed generator is alive in these positions of the main thread
Collecting == pc \in {"p1_wait", "p1_yield", "p2_wait", "p2_yield"}

\* a finishing future is handed to the waiter of a live as_completed
Notify(c) == IF Collecting THEN Append(waiter, c) ELSE waiter

---------------------------------------------------------------------------
(* Spec: run_speed_tests *)

InitSpeed ==
    /\ \E n \in 0 .. MaxCands : ip_list = [i \in 1 .. n |-> i]
    /\ fast \in BOOLEAN
    /\ pc = "start"
    /\ task1 = [c \in Cands |-> "none"]
    /\ res1 = [c \in Cands |-> None]
    /\ task2 = [c \in Cands |-> "none"]
    /\ res2 = [c \in Cands |-> None]
    /\ idx2 = [c \in Cands |-> 0]
    /\ tried2 = [c \in Cands |-> <<>>]
    /\ waiter = <<>>
    /\ batch = <<>>
    /\ unyielded = {}
    /\ scan = 0
    /\ failed_ips = <<>>
    /\ speed_results = <<>>
    \* every file holds what an earlier run left behind
    /\ speedtest_log = <<StaleLine>>
    /\ result_files = [k \in FileKeys |-> <<StaleLine>>]
    /\ playlists = [k \in FileKeys |-> <<0>>]
    /\ IdleDedupe /\ IdleSearch /\ IdleRun /\ IdleVerify /\ IdleSink
    /\ IdleRetry
    /\ IdleExtract
    /\ IdleProbe
    /\ IdleOther
    /\ IdleStatus

\* run_speed_tests up to the submission of the phase-1 tasks
RunSpeedTests ==
    /\ pc = "start"
    /\ IF ip_list = <<>>
       THEN /\ pc' = "returned"
            /\ UNCHANGED <<task1, unyielded, speedtest_log, result_files,
                           playlists>>
       ELSE /\ pc' = "p1_wait"
            \* os.remove(self.speedtest_log)
            /\ speedtest_log' = <<>>
            \* _initialize_result_files
            /\ result_files' = [result_files EXCEPT ![DefaultKey] = <<>>]
            /\ playlists' = [playlists EXCEPT ![DefaultKey] = <<>>]
            /\ task1' = [c \in Cands |->
                           IF c \in Range(ip_list) THEN "pending" ELSE "none"]
            /\ unyielded' = Range(ip_list)
    /\ UNCHANGED <<ip_list, fast, res1, task2, res2, idx2, tried2, waiter,
                   batch, scan, failed_ips, speed_results>>
    /\ UNCHANGED nonSpeedVars

\* a worker of the phase-1 pool takes a task: test_default_config starts
P1Start(c) ==
    /\ task1[c] = "pending"
    /\ Cardinality(Running(task1)) < Phase1Workers
    /\ task1' = [task1 EXCEPT ![c] = "running"]
    /\ UNCHANGED <<ip_list, fast, pc, res1, task2, res2, idx2, tried2, waiter,
                   batch, unyielded, scan, failed_ips, speed_results,
                   speedtest_log, result_files, playlists>>
    /\ UNCHANGED nonSpeedVars

\* test_default_config returns: test_stream_speed gave a result or None
P1Finish(c) ==
    /\ task1[c] = "running"
    /\ \E r \in {None} \cup {Result(c, s, 0) : s \in Speeds} :
          res1' = [res1 EXCEPT ![c] = r]
    /\ task1' = [task1 EXCEPT ![c] = "finished"]
    /\ waiter' = Notify(c)
    /\ UNCHANGED <<ip_list, fast, pc, task2, res2, idx2, tried2, batch,
                   unyielded, scan, failed_ips, speed_results, speedtest_log,
                   result_files, playlists>>
    /\ UNCHANGED nonSpeedVars

\* as_completed wakes up and takes the futures that finished meanwhile
Collect(here, there) ==
    /\ pc = here
    /\ waiter # <<>>
    /\ batch' = waiter
    /\ waiter' = <<>>
    /\ pc' = there

P1Collect ==
    /\ Collect("p1_wait", "p1_yield")
    /\ UNCHANGED <<ip_list, fast, task1, res1, task2, res2, idx2, tried2,
                   unyielded, scan, failed_ips, speed_results, speedtest_log,
                   result_files, playlists>>
    /\ UNCHANGED nonSpeedVars

\* the body of "for future in as_completed(...)": one completed future
RecordSuccess(r) ==
    /\ speedtest_log' = AppendLine(speedtest_log, ResultLine(r))
    /\ result_files' = AppendResultFile(result_files, r)
    /\ playlists' = AppendPlaylist(playlists, r)
    /\ speed_results' = Append(speed_results, r)

P1Handle ==
    /\ pc = "p1_yield"
    /\ batch # <<>>
    /\ LET c == Head(batch) IN
          /\ unyielded' = unyielded \ {c}
          /\ IF res1[c] # None
             THEN /\ RecordSuccess(res1[c])
                  /\ UNCHANGED failed_ips
             ELSE /\ failed_ips' = Append(failed_ips, c)
                  /\ UNCHANGED <<speed_results, speedtest_log, result_files,
                                 playlists>>
    /\ batch' = Tail(batch)
    /\ pc' = IF Tail(batch) = <<>> THEN "p1_wait" ELSE "p1_yield"
    /\ UNCHANGED <<ip_list, fast, task1, res1, task2, res2, idx2, tried2,
                   waiter, scan>>
    /\ UNCHANGED nonSpeedVars

\* as_completed has yielded every future: the for loop ends
P1Done ==
    /\ pc = "p1_wait"
    /\ unyielded = {}
    /\ pc' = "p1_join"
    /\ waiter' = <<>>
    /\ UNCHANGED <<ip_list, fast, task1, res1, task2, res2, idx2, tried2,
                   batch, unyielded, scan, failed_ips, speed_results,
                   speedtest_log, result_files, playlists>>
    /\ UNCHANGED nonSpeedVars

\* as_completed(timeout=180) raises TimeoutError
P1Timeout ==
    /\ pc = "p1_wait"
    /\ unyielded # {}
    /\ pc' = "p1_scan"
    /\ scan' = 1
    /\ waiter' = <<>>
    /\ UNCHANGED <<ip_list, fast, task1, res1, task2, res2, idx2, tried2,
                   batch, unyielded, failed_ips, speed_results, speedtest_log,
                   result_files, playlists>>
    /\ UNCHANGED nonSpeedVars

\* one iteration of "for future in future_to_ip" in the timeout handler
P1Scan ==
    /\ pc = "p1_scan"
    /\ LET c == ip_list[scan] IN
          IF ~FutureDone(task1[c])
          THEN /\ failed_ips' = Append(failed_ips, c)
               /\ task1' = [task1 EXCEPT ![c] = FutureCancel(@)]
          ELSE UNCHANGED <<failed_ips, task1>>
    /\ scan' = scan + 1
    /\ pc' = IF scan = Len(ip_list) THEN "p1_join" ELSE "p1_scan"
    /\ UNCHANGED <<ip_list, fast, res1, task2, res2, idx2, tried2, waiter,
                   batch, unyielded, speed_results, speedtest_log,
                   result_files, playlists>>
    /\ UNCHANGED nonSpeedVars

\* a faulty variant: the --fast switch not looked at
EnterPhase2IgnoringFast == failed_ips # <<>>

\* `if failed_ips and not self.fast`: phase 2 is entered
EnterPhase2 == failed_ips # <<>> /\ ~fast

\* a faulty variant: the pool is left without waiting for its workers
PoolNotWaited(task) == TRUE

\* leaving a "with ThreadPoolExecutor" block joins the workers: no task of
\* the pool is queued or running when the block has been left
PoolShutDown(task) == \A c \in Cands : task[c] \notin {"pending", "running"}

\* the phase-1 "with ThreadPoolExecutor" block exits (shutdown(wait=True)),
\* then phase 2 submits its tasks or is skipped
P1Join ==
    /\ pc = "p1_join"
    /\ PoolShutDown(task1)
    /\ IF EnterPhase2
       THEN /\ task2' = [c \in Cands |->
                           IF c \in Range(failed_ips) THEN "pending" ELSE "none"]
            /\ unyielded' = Range(failed_ips)
            /\ pc' = "p2_wait"
       ELSE /\ pc' = "returned"
            /\ UNCHANGED <<task2, unyielded>>
    /\ UNCHANGED <<ip_list, fast, task1, res1, res2, idx2, tried2, waiter,
                   batch, scan, failed_ips, speed_results, speedtest_log,
                   result_files, playlists>>
    /\ UNCHANGED nonSpeedVars

---------------------------------------------------------------------------
(* Phase 2 *)

\* a faulty variant: the loop without its early return: the result is looked at only
\* when the loop ends
OtherConfigsNoEarlyReturn(i, n, ok) ==
    IF i >= MaxConfigTries \/ i = n
    THEN IF ok THEN "found" ELSE "exhausted"
    ELSE "continue"

\* a faulty variant: the loop without its limit of tries
OtherConfigsNoCap(i, n, ok) ==
    IF ok THEN "found"
    ELSE IF i = n THEN "exhausted"
    ELSE "continue"

\* what test_with_other_configs does after the probe of the i-th of n
\* remaining entries: return the result, give up, or go to the next entry
OtherConfigsStep(i, n, ok) ==
    IF ok THEN "found"
    ELSE IF i >= MaxConfigTries \/ i = n THEN "exhausted"
    ELSE "continue"

\* a worker of the phase-2 pool takes a task: test_other_configs starts and
\* test_with_other_configs builds remaining_configs
P2Start(c) ==
    /\ task2[c] = "pending"
    /\ Cardinality(Running(task2)) < Phase2Workers
    /\ IF remaining_configs = <<>>
       THEN \* the loop body never runs; the task returns (None, "")
            /\ task2' = [task2 EXCEPT ![c] = "finished"]
            /\ waiter' = Notify(c)
            /\ UNCHANGED idx2
       ELSE /\ task2' = [task2 EXCEPT ![c] = "running"]
            /\ idx2' = [idx2 EXCEPT ![c] = 1]
            /\ UNCHANGED waiter
    /\ UNCHANGED <<ip_list, fast, pc, task1, res1, res2, tried2, batch,
                   unyielded, scan, failed_ips, speed_results, speedtest_log,
                   result_files, playlists>>
    /\ UNCHANGED nonSpeedVars

\* one iteration of the loop of test_with_other_configs: one StreamProbe
P2Probe(c) ==
    /\ task2[c] = "running"
    /\ LET i == idx2[c]
           k == remaining_configs[i]
       IN \E r \in {None} \cup {Result(c, s, k) : s \in Speeds} :
             LET step == OtherConfigsStep(i, Len(remaining_configs), r # None)
             IN /\ tried2' = [tried2 EXCEPT
                                 ![c] = Append(@, [cfg |-> k, ok |-> r # None])]
                /\ IF step = "continue"
                   THEN /\ idx2' = [idx2 EXCEPT ![c] = i + 1]
                        /\ UNCHANGED <<task2, res2, waiter>>
                   ELSE /\ task2' = [task2 EXCEPT ![c] = "finished"]
                        /\ res2' = [res2 EXCEPT
                                       ![c] = IF step = "found" THEN r ELSE None]
                        /\ waiter' = Notify(c)
                        /\ UNCHANGED idx2
    /\ UNCHANGED <<ip_list, fast, pc, task1, res1, batch, unyielded, scan,
                   failed_ips, speed_results, speedtest_log, result_files,
                   playlists>>
    /\ UNCHANGED nonSpeedVars

P2Collect ==
    /\ Collect("p2_wait", "p2_yield")
    /\ UNCHANGED <<ip_list, fast, task1, res1, task2, res2, idx2, tried2,
                   unyielded, scan, failed_ips, speed_results, speedtest_log,
                   result_files, playlists>>
    /\ UNCHANGED nonSpeedVars

\* the body of the phase-2 "for future in as_completed(...)"
P2Handle ==
    /\ pc = "p2_yield"
    /\ batch # <<>>
    /\ LET c == Head(batch) IN
          /\ unyielded' = unyielded \ {c}
          /\ IF res2[c] # None
             THEN RecordSuccess(res2[c])
             ELSE UNCHANGED <<speed_results, speedtest_log, result_files,
                              playlists>>
    /\ batch' = Tail(batch)
    /\ pc' = IF Tail(batch) = <<>> THEN "p2_wait" ELSE "p2_yield"
    /\ UNCHANGED <<ip_list, fast, task1, res1, task2, res2, idx2, tried2,
                   waiter, scan, failed_ips>>
    /\ UNCHANGED nonSpeedVars

P2Done ==
    /\ pc = "p2_wait"
    /\ unyielded = {}
    /\ pc' = "p2_finally"
    /\ waiter' = <<>>
    /\ UNCHANGED <<ip_list, fast, task1, res1, task2, res2, idx2, tried2,
                   batch, unyielded, scan, failed_ips, speed_results,
                   speedtest_log, result_files, playlists>>
    /\ UNCHANGED nonSpeedVars

\* as_completed(timeout=600) raises TimeoutError
P2Timeout ==
    /\ pc = "p2_wait"
    /\ unyielded # {}
    /\ pc' = "p2_scan"
    /\ scan' = 1
    /\ waiter' = <<>>
    /\ UNCHANGED <<ip_list, fast, task1, res1, task2, res2, idx2, tried2,
                   batch, unyielded, failed_ips, speed_results, speedtest_log,
                   result_files, playlists>>
    /\ UNCHANGED nonSpeedVars

\* one iteration of "for future in future_to_data" in the timeout handler
P2Scan ==
    /\ pc = "p2_scan"
    /\ LET c == failed_ips[scan] IN
          IF ~FutureDone(task2[c])
          THEN task2' = [task2 EXCEPT ![c] = FutureCancel(@)]
          ELSE UNCHANGED task2
    /\ scan' = scan + 1
    /\ pc' = IF scan = Len(failed_ips) THEN "p2_finally" ELSE "p2_scan"
    /\ UNCHANGED <<ip_list, fast, task1, res1, res2, idx2, tried2, waiter,
                   batch, unyielded, failed_ips, speed_results, speedtest_log,
                   result_files, playlists>>
    /\ UNCHANGED nonSpeedVars

\* the finally block: cancel whatever is not done
P2Finally ==
    /\ pc = "p2_finally"
    /\ task2' = [c \in Cands |->
                    IF ~FutureDone(task2[c]) THEN FutureCancel(task2[c])
                    ELSE task2[c]]
    /\ pc' = "p2_join"
    /\ UNCHANGED <<ip_list, fast, task1, res1, res2, idx2, tried2, waiter,
                   batch, unyielded, scan, failed_ips, speed_results,
                   speedtest_log, result_files, playlists>>
    /\ UNCHANGED nonSpeedVars

\* the phase-2 "with ThreadPoolExecutor" block exits (shutdown(wait=True))
\* and run_speed_tests returns speed_results
P2Join ==
    /\ pc = "p2_join"
    /\ PoolShutDown(task2)
    /\ pc' = "returned"
    /\ UNCHANGED <<ip_list, fast, task1, res1, task2, res2, idx2, tried2,
                   waiter, batch, unyielded, scan, failed_ips, speed_results,
                   speedtest_log, result_files, playlists>>
    /\ UNCHANGED nonSpeedVars

---------------------------------------------------------------------------
(* generate_results, _merge_template_file, cleanup *)

\* list.sort(key=speed, reverse=True): stable, descending
RECURSIVE SortBySpeed(_)
SortBySpeed(s) ==
    IF s = <<>> THEN <<>>
    ELSE LET x == Head(s)
             rest == SortBySpeed(Tail(s))
             n == Cardinality({i \in 1 .. Len(rest) : rest[i].speed > x.speed})
         IN SubSeq(rest, 1, n) \o <<x>> \o SubSeq(rest, n + 1, Len(rest))

\* filtered_results of generate_results
FilteredResults(results) ==
    SortBySpeed(SelectSeq(results, LAMBDA r : r.speed > MinWriteSpeed))

\* a faulty variant: only the results of the default entry are written
WriteDefaultGroupOnly(files, filtered) ==
    [files EXCEPT ![DefaultKey] =
        LET g == SelectSeq(filtered, LAMBDA r : r.cfg = 0)
        IN  [i \in 1 .. Len(g) |-> ResultLine(g[i])]]

\* open(self.result_file, 'w') and one line per filtered result
WriteResultFile(files, filtered) ==
    [files EXCEPT ![DefaultKey] =
        [i \in 1 .. Len(filtered) |-> ResultLine(filtered[i])]]

\* the results of one configuration group, in order
GroupOf(key, results) == SelectSeq(results, LAMBDA r : ResultKey(r) = key)

\* _merge_template_file: open(output_file, 'w') per group with a template
MergeTemplateFile(lists, results) ==
    [key \in FileKeys |->
        LET g == GroupOf(key, results) IN
        IF g # <<>> /\ TemplateExists(key)
        THEN [i \in 1 .. Len(g) |-> g[i].ip]
        ELSE lists[key]]

\* run(): generate_results(speed_results)
GenerateResults ==
    /\ pc = "returned"
    /\ pc' = "generated"
    /\ LET filtered == FilteredResults(speed_results) IN
          IF filtered = <<>>
          THEN UNCHANGED <<result_files, playlists>>
          ELSE /\ result_files' = WriteResultFile(result_files, filtered)
               /\ playlists' = MergeTemplateFile(playlists, filtered)
    /\ UNCHANGED <<ip_list, fast, task1, res1, task2, res2, idx2, tried2,
                   waiter, batch, unyielded, scan, failed_ips, speed_results,
                   speedtest_log>>
    /\ UNCHANGED nonSpeedVars

\* run(): cleanup(keep_logs=False) removes the speed-test log
Cleanup ==
    /\ pc = "generated"
    /\ pc' = "end"
    /\ speedtest_log' = <<>>
    /\ UNCHANGED <<ip_list, fast, task1, res1, task2, res2, idx2, tried2,
                   waiter, batch, unyielded, scan, failed_ips, speed_results,
                   result_files, playlists>>
    /\ UNCHANGED nonSpeedVars

NextSpeed ==
    \/ RunSpeedTests
    \/ \E c \in Cands : P1Start(c)
    \/ \E c \in Cands : P1Finish(c)
    \/ P1Collect
    \/ P1Handle
    \/ P1Done
    \/ P1Timeout
    \/ P1Scan
    \/ P1Join
    \/ \E c \in Cands : P2Start(c)
    \/ \E c \in Cands : P2Probe(c)
    \/ P2Collect
    \/ P2Handle
    \/ P2Done
    \/ P2Timeout
    \/ P2Scan
    \/ P2Finally
    \/ P2Join
    \/ GenerateResults
    \/ Cleanup

Spec == InitSpeed /\ [][NextSpeed]_vars

---------------------------------------------------------------------------
(* Claims about run_speed_tests (specification Spec) *)

\* the lines this run wrote into a file (an earlier run's lines carry ip 0)
RunLines(f) == SelectSeq(f, LAMBDA l : l.ip \in Cands)

\* candidates of the lines this run wrote into a file, in order
RunIps(f) == [i \in 1 .. Len(RunLines(f)) |-> RunLines(f)[i].ip]

\* the phase-1 StreamProbe of c has completed and returned failure
Phase1Failed(c) == task1[c] = "finished" /\ res1[c] = None

\* C1: no phase-2 StreamProbe is started for a candidate unless its phase-1
\* StreamProbe has completed and returned failure (stated as claimed; the
\* timeout handler of phase 1 breaks it).
C1_Phase2OnlyAfterPhase1Failure ==
    \A c \in Cands : tried2[c] # <<>> => Phase1Failed(c)

\* C2: while run_speed_tests runs and when it has returned, no candidate
\* occurs twice in speed_results, in the speed-test log, or among the lines
\* appended to the result files (all files taken together).
C2_AtMostOneSuccessPerCandidate ==
    pc \notin {"generated", "end"} =>
        /\ NoDup([i \in 1 .. Len(speed_results) |-> speed_results[i].ip])
        /\ NoDup(RunIps(speedtest_log))
        /\ \A k \in FileKeys : NoDup(RunIps(result_files[k]))
        /\ \A k1, k2 \in FileKeys :
              k1 # k2 =>
                 Range(RunIps(result_files[k1]))
                    \cap Range(RunIps(result_files[k2])) = {}

\* C2 witness: the run returned two successes, one of phase 1 and one of
\* phase 2, after the phase-1 timeout handler ran.
C2_Witness ==
    /\ pc = "returned"
    /\ Len(speed_results) = 2
    /\ \E i, j \in 1 .. 2 : speed_results[i].cfg = 0 /\ speed_results[j].cfg # 0
    /\ scan > 0

\* C5: for each candidate the entries probed in phase 2 are the remaining
\* catalog entries in catalog order, one after the other; every probe before
\* the last one failed (no entry is probed after a success); and a recorded
\* phase-2 result names the entry of the first (and only) successful probe.
C5_FirstSuccessInCatalogOrder ==
    \A c \in Cands :
        /\ Len(tried2[c]) <= Len(remaining_configs)
        /\ \A i \in 1 .. Len(tried2[c]) :
              /\ tried2[c][i].cfg = remaining_configs[i]
              /\ i < Len(tried2[c]) => ~tried2[c][i].ok
        /\ \A i \in 1 .. Len(speed_results) :
              (speed_results[i].ip = c /\ speed_results[i].cfg # 0) =>
                  /\ tried2[c] # <<>>
                  /\ tried2[c][Len(tried2[c])].ok
                  /\ tried2[c][Len(tried2[c])].cfg = speed_results[i].cfg
        /\ \A k \in FileKeys : \A i \in 1 .. Len(result_files[k]) :
              (pc \notin {"generated", "end"} /\ result_files[k][i].ip = c
               /\ result_files[k][i].tag # <<>>) =>
                  /\ tried2[c] # <<>>
                  /\ tried2[c][Len(tried2[c])].ok
                  /\ k = ConfigKey(tried2[c][Len(tried2[c])].cfg)

\* C5 witness: of three remaining entries the first failed, the second
\* succeeded and was recorded, the third was never probed.
C5_Witness ==
    \E c \in Cands :
        /\ Len(remaining_configs) = 3
        /\ Len(tried2[c]) = 2
        /\ ~tried2[c][1].ok /\ tried2[c][2].ok
        /\ task2[c] = "finished"
        /\ \E i \in 1 .. Len(speed_results) :
              speed_results[i] = res2[c] /\ res2[c].cfg = remaining_configs[2]
        /\ pc = "end"

\* c's success line is in a result file or a playlist file
Recorded(c) ==
    \E k \in FileKeys :
        \/ c \in Range(RunIps(result_files[k]))
        \/ c \in Range(playlists[k])

\* a step in which a probe of c starts
ProbeStarts(c) ==
    \/ task1[c] # "running" /\ task1'[c] = "running"
    \/ tried2'[c] # tried2[c]

\* a step that leaves every file holding a line of this run as it is or
\* appends to it, and starts no probe of a recorded candidate
AppendOnlyStep ==
    /\ \A k \in FileKeys :
          /\ RunLines(result_files[k]) # <<>> =>
                IsPrefix(result_files[k], result_files'[k])
          /\ Range(playlists[k]) \cap Cands # {} =>
                IsPrefix(playlists[k], playlists'[k])
    /\ \A c \in Cands : Recorded(c) => ~ProbeStarts(c)

\* C10 as claimed: once a success line is written, no later step of the run
\* (generate_results and _merge_template_file included) probes the candidate
\* again or truncates or rewrites the file; files only grow by appended lines.
C10_AppendOnlyWholeRun == [][AppendOnlyStep]_vars

\* C10 as amended: the same for every step except generate_results (with
\* its _merge_template_file), the step taken when run_speed_tests has
\* returned.
C10_AppendOnlyInSpeedTests ==
    [][pc # "returned" => AppendOnlyStep]_vars

\* C10 witness: a phase-2 success line was appended to a file that already
\* held lines, while a phase-1 success line stays in the default file.
C10_Witness ==
    /\ pc = "returned"
    /\ RunLines(result_files[DefaultKey]) # <<>>
    /\ \E k \in FileKeys \ {DefaultKey} :
          /\ Len(result_files[k]) = 2
          /\ Len(RunLines(result_files[k])) = 1

\* the main thread has left the phase-1 block
Phase1Over == pc \notin {"idle", "start", "p1_wait", "p1_yield", "p1_scan",
                         "p1_join"}

\* C13: phase 2 is entered only if a candidate is on the failed list of
\* phase 1 and the run is not in fast mode: with fast set no phase-2 task is
\* submitted and no probe against a non-default entry is made, and a phase-2
\* task exists only for a candidate of a non-empty failed list.
C13_Phase2OnlyWhenFailedAndNotFast ==
    /\ fast => \A c \in Cands : task2[c] = "none" /\ tried2[c] = <<>>
    /\ failed_ips = <<>> => \A c \in Cands : task2[c] = "none"
    /\ \A c \in Cands :
          (task2[c] # "none" \/ tried2[c] # <<>>) =>
              ~fast /\ c \in Range(failed_ips)

\* C13 witness: a fast run has returned with one candidate recorded and the
\* other one on the failed list, no phase-2 task having been submitted
C13_Witness ==
    /\ pc = "returned"
    /\ fast
    /\ failed_ips # <<>>
    /\ speed_results # <<>>
    /\ \A c \in Cands : task2[c] = "none"

\* the catalog entries phase 2 has probed candidate c against, in order
TriedConfigs(c) == [j \in 1 .. Len(tried2[c]) |-> tried2[c][j].cfg]

C23_PoolsNeverOverlap ==
    (\E d \in Cands : task2[d] # "none") =>
        \A c \in Cands : task1[c] \notin {"pending", "running"}

\* C23 witness: a phase-1 task that was still running when the timeout fired
\* (it is on the failed list although it returned a speed) has completed, and
\* a phase-2 task is running
C23_Witness ==
    \E c, d \in Cands :
        /\ c \in Range(failed_ips)
        /\ task1[c] = "finished"
        /\ res1[c] # None
        /\ task2[d] = "running"

\* C26 as claimed: when phase 1 has ended, every candidate is in exactly one
\* of speed_results and failed_ips, for every interleaving of the workers
\* with the main thread.
C26_SuccessOrFailedList ==
    pc = "p1_join" =>
        \A c \in Range(ip_list) :
            (\E i \in 1 .. Len(speed_results) : speed_results[i].ip = c)
                # (c \in Range(failed_ips))

\* C27 as claimed: a phase-2 search that finds a match is recorded in
\* speed_results, also when it completes after the 600 s timeout has fired.
\* Nothing is appended to speed_results once run_speed_tests has returned, so
\* "eventually recorded" requires the match to be there at the return.
C27_Phase2MatchRecorded ==
    pc = "returned" =>
        \A c \in Cands :
            (task2[c] = "finished" /\ res2[c] # None) =>
                \E i \in 1 .. Len(speed_results) : speed_results[i].ip = c

\* the lines of this run in a result file, as a set
RunLineSet(f) == Range(RunLines(f))

\* the step of generate_results
GenerateStep == pc = "returned" /\ pc' = "generated"

\* C29 as claimed: generate_results leaves in every result file the set of
\* lines that _append_result_immediately accumulated there; it only reorders.
C29_RewriteOnlyReorders ==
    [][GenerateStep =>
          \A k \in FileKeys :
              RunLineSet(result_files'[k]) = RunLineSet(result_files[k])]_vars

\* C29 as amended: generate_results rewrites the default result file alone.
\* When a result above the threshold exists, the file then holds the lines
\* accumulated in all result files of the run taken together, by descending
\* speed; the other files are left as they are.
C29_RewriteCollectsAllFiles ==
    [][GenerateStep =>
          /\ \A k \in FileKeys \ {DefaultKey} :
                result_files'[k] = result_files[k]
          /\ IF \E k \in FileKeys : RunLines(result_files[k]) # <<>>
             THEN /\ Range(result_files'[DefaultKey]) =
                        UNION {RunLineSet(result_files[k]) : k \in FileKeys}
                  /\ \A i, j \in 1 .. Len(result_files'[DefaultKey]) :
                        i < j => result_files'[DefaultKey][i].speed
                                    >= result_files'[DefaultKey][j].speed
             ELSE result_files'[DefaultKey] = result_files[DefaultKey]]_vars

\* C29 witness: after generate_results the default file holds the line of a
\* phase-1 success and the tagged line of a phase-2 match, which is also in
\* the file of its own carrier and city
C29_Witness ==
    /\ pc = "generated"
    /\ \E i \in 1 .. Len(result_files[DefaultKey]) :
          result_files[DefaultKey][i].tag = <<>>
    /\ \E i \in 1 .. Len(result_files[DefaultKey]) :
          /\ result_files[DefaultKey][i].tag # <<>>
          /\ \E k \in FileKeys \ {DefaultKey} :
                result_files[DefaultKey][i] \in Range(result_files[k])

\* the phase-2 search of c has probed every other entry of the catalog, up
\* to the limit, and none succeeded
Phase2Exhausted(c) ==
    /\ task2[c] = "finished"
    /\ res2[c] = None
    /\ Len(tried2[c]) = (IF Len(remaining_configs) < MaxConfigTries
                         THEN Len(remaining_configs) ELSE MaxConfigTries)
    /\ \A j \in 1 .. Len(tried2[c]) : ~tried2[c][j].ok

\* C30 as claimed: when run_speed_tests has returned, every candidate is
\* terminal: it is a recorded success, or its probe against the default
\* entry has failed and, unless the run is in fast mode, its probes against
\* every other entry up to the limit have failed too.
C30_EveryCandidateTerminal ==
    pc = "returned" =>
        \A c \in Range(ip_list) :
            \/ \E i \in 1 .. Len(speed_results) : speed_results[i].ip = c
            \/ Phase1Failed(c) /\ (fast \/ Phase2Exhausted(c))

\* run_speed_tests under fair scheduling: the pools run their workers and
\* every probe ends (connect and read timeouts, the size and time limits of
\* the download), the main thread is woken by its timeouts
FairSpec == Spec /\ WF_vars(NextSpeed)

\* the termination half of C30: the run always comes to its end (holds
\* under FairSpec)
RunTerminates == <>(pc = "end")

\* C14 as claimed: when phase 1 is over, the phase-1 probe of every candidate
\* of the list has run (once) to its end, whether or not the timeout of
\* as_completed has fired.
C14_EveryCandidateProbedInPhase1 ==
    Phase1Over => \A c \in Range(ip_list) : task1[c] = "finished"

\* the main thread is past a raised or exhausted as_completed: in the timeout
\* handler of a phase, in the finally block, or waiting for the pool to end
AfterCollecting ==
    pc \in {"p1_scan", "p1_join", "p2_scan", "p2_finally", "p2_join"}

\* C16 as claimed: once the timeout of a phase has fired, no further probe is
\* started, neither by a queued task nor by a running phase-2 task that goes
\* to its next catalog entry.  (When as_completed ends without a timeout all
\* tasks have finished, so the positions of AfterCollecting see a probe start
\* only after a timeout.)
C16_NoProbeAfterTimeout ==
    [][AfterCollecting => \A c \in Cands : ~ProbeStarts(c)]_vars

---------------------------------------------------------------------------
(* SpecDedupe: process_jsmpeg of makecsv.py *)

\* the rows and candidates of one starting state are MaxItems at most
MaxItems == 3
\* how many times the program is started on the same CSV file
MaxRuns == 2

\* The ip field is kept as the list ip.split('.') gives.  Values are taken
\* as already stripped of surrounding white space.
IpValues == {<<1, 2, 3, 4>>, <<1, 2, 3, 250>>}
\* an ip field that does not split into three parts
ShortIp == <<1, 2>>
Ports == {80, 81}

\* the host field: f"{ip}:{port}", or a name with a port as FOFA gives it
HostAddr(ip, port) == [name |-> "", ip |-> ip, port |-> port]
HostName == [name |-> "tv.example.com:8080", ip |-> <<>>, port |-> 0]
HostsOf(ip, port) == {HostAddr(ip, port), HostName}

\* what the _extract_*_results functions append: a valid IPv4 address, a
\* port, a host and a non-empty link, marked with the engine's name
FreshItem(host, ip, port) ==
    [host |-> host, ip |-> ip, port |-> port, link |-> "http",
     _source |-> "fofa_api"]

FreshItems ==
    UNION {{FreshItem(h, ip, p) : h \in HostsOf(ip, p)} :
              ip \in IpValues, p \in Ports}

\* rows a CSV file may hold: the program's own rows, rows whose ip is of
\* another form, and a row without a link
CsvRows ==
    {[host |-> h, ip |-> ip, port |-> p, link |-> "http"] :
        h \in {HostAddr(<<1, 2, 3, 4>>, 80), HostName},
        ip \in IpValues \cup {ShortIp}, p \in Ports}
    \cup {[host |-> HostName, ip |-> <<1, 2, 3, 4>>, port |-> 80, link |-> ""]}

SeqsUpTo(S, n) == UNION {[1 .. k -> S] : k \in 0 .. n}

\* read_existing_csv: "if host and ip and port and link"
RowComplete(row) ==
    /\ row.host.name # "" \/ row.host.ip # <<>>
    /\ row.ip # <<>>
    /\ row.port # 0
    /\ row.link # ""

MarkExisting(row) ==
    [host |-> row.host, ip |-> row.ip, port |-> row.port, link |-> row.link,
     _source |-> "existing"]

read_existing_csv(rows) ==
    LET complete == SelectSeq(rows, RowComplete)
    IN  [i \in 1 .. Len(complete) |-> MarkExisting(complete[i])]

IsExisting(item) == item._source = "existing"
IsNew(item) == item._source # "existing"

\* the two loops of the host stage: an item is added when its host is not
\* in host_seen
RECURSIVE AddByHost(_, _)
AddByHost(host_unique, items) ==
    IF items = <<>> THEN host_unique
    ELSE LET host_seen == {host_unique[i].host : i \in 1 .. Len(host_unique)}
             item == Head(items)
         IN  AddByHost(IF item.host \notin host_seen
                       THEN Append(host_unique, item)
                       ELSE host_unique,
                       Tail(items))

\* a faulty variant: the fresh candidates added before the existing ones
HostStageNewFirst(data) ==
    AddByHost(AddByHost(<<>>, SelectSeq(data, IsNew)),
              SelectSeq(data, IsExisting))

HostStage(data) ==
    AddByHost(AddByHost(<<>>, SelectSeq(data, IsExisting)),
              SelectSeq(data, IsNew))

\* "if len(ip_parts) >= 3": only then the item enters c_segment_port_map
HasKey(item) == Len(item.ip) >= 3

\* key = f"{c_segment}.x:{port}"
KeyOf(item) == [c_segment |-> SubSeq(item.ip, 1, 3), port |-> item.port]

\* the keys of c_segment_port_map in insertion order
RECURSIVE KeysInOrder(_, _)
KeysInOrder(keys, items) ==
    IF items = <<>> THEN keys
    ELSE LET item == Head(items)
         IN  KeysInOrder(IF HasKey(item) /\ KeyOf(item) \notin Range(keys)
                         THEN Append(keys, KeyOf(item))
                         ELSE keys,
                         Tail(items))

ItemsOfKey(key, items) ==
    LET Test(item) == HasKey(item) /\ KeyOf(item) = key
    IN  SelectSeq(items, Test)

\* a faulty variant: the last item of the group is kept
PickLast(items) == items[Len(items)]

\* the item kept for one key: the first existing one, else the first
PickItem(items) ==
    LET existing_items == SelectSeq(items, IsExisting)
    IN  IF existing_items # <<>> THEN existing_items[1] ELSE items[1]

SegmentStage(host_unique) ==
    LET keys == KeysInOrder(<<>>, host_unique)
    IN  [k \in 1 .. Len(keys) |-> PickItem(ItemsOfKey(keys[k], host_unique))]

\* "del item['_source']"
StripSource(item) ==
    [host |-> item.host, ip |-> item.ip, port |-> item.port,
     link |-> item.link]

deduplicate_data(data) ==
    LET final == SegmentStage(HostStage(data))
    IN  [i \in 1 .. Len(final) |-> StripSource(final[i])]

\* a faulty variant: the link column is left empty
csv_row_without_link(item) ==
    [host |-> item.host, ip |-> item.ip, port |-> item.port, link |-> ""]

\* write_csv: the columns of one row (those read_existing_csv looks at)
csv_row(item) ==
    [host |-> item.host, ip |-> item.ip, port |-> item.port,
     link |-> item.link]

InitDedupe ==
    /\ csv_file \in SeqsUpTo(CsvRows, MaxItems)
    /\ new_data = <<>> /\ existing_data = <<>> /\ all_data = <<>>
    /\ host_unique_data = <<>> /\ final_data = <<>>
    /\ run_no = 1
    /\ dpc = "search"
    /\ IdleSpeed /\ IdleSearch /\ IdleRun /\ IdleVerify /\ IdleSink
    /\ IdleRetry
    /\ IdleExtract
    /\ IdleProbe
    /\ IdleOther
    /\ IdleStatus

\* new_data = self.search_all_engines(...)
SearchAllEngines ==
    /\ dpc = "search"
    /\ \E found \in SeqsUpTo(FreshItems, MaxItems - Len(csv_file)) :
          new_data' = found
    /\ dpc' = "read"
    /\ UNCHANGED <<csv_file, existing_data, all_data, host_unique_data,
                   final_data, run_no>>
    /\ UNCHANGED nonDedupeVars

\* existing_data = self.read_existing_csv(csv_file)
ReadExistingCsv ==
    /\ dpc = "read"
    /\ existing_data' = read_existing_csv(csv_file)
    /\ dpc' = "dedupe"
    /\ UNCHANGED <<csv_file, new_data, all_data, host_unique_data,
                   final_data, run_no>>
    /\ UNCHANGED nonDedupeVars

\* all_data = existing_data + new_data; final_data = deduplicate_data(all_data)
DeduplicateData ==
    /\ dpc = "dedupe"
    /\ all_data' = existing_data \o new_data
    /\ host_unique_data' = HostStage(all_data')
    /\ final_data' = deduplicate_data(all_data')
    /\ dpc' = "write"
    /\ UNCHANGED <<csv_file, new_data, existing_data, run_no>>
    /\ UNCHANGED nonDedupeVars

\* self.write_csv(final_data, csv_file)
WriteCsv ==
    /\ dpc = "write"
    /\ csv_file' = [i \in 1 .. Len(final_data) |-> csv_row(final_data[i])]
    /\ dpc' = "done"
    /\ UNCHANGED <<new_data, existing_data, all_data, host_unique_data,
                   final_data, run_no>>
    /\ UNCHANGED nonDedupeVars

\* the program is started again on the file it wrote
ProcessAgain ==
    /\ dpc = "done"
    /\ run_no < MaxRuns
    /\ run_no' = run_no + 1
    /\ dpc' = "search"
    /\ new_data' = <<>> /\ existing_data' = <<>> /\ all_data' = <<>>
    /\ host_unique_data' = <<>> /\ final_data' = <<>>
    /\ UNCHANGED csv_file
    /\ UNCHANGED nonDedupeVars

NextDedupe ==
    \/ SearchAllEngines
    \/ ReadExistingCsv
    \/ DeduplicateData
    \/ WriteCsv
    \/ ProcessAgain

SpecDedupe == InitDedupe /\ [][NextDedupe]_vars

---------------------------------------------------------------------------
(* Claims about deduplicate_data (specification SpecDedupe) *)

\* deduplicate_data has returned in this run
Deduplicated == dpc \in {"write", "done"}

\* the indices of the members of data that have the key of data[i]
GroupOfIndex(data, i) ==
    {j \in 1 .. Len(data) : HasKey(data[j]) /\ KeyOf(data[j]) = KeyOf(data[i])}

\* the indices of final_data that have the key of item
SurvivorsOf(item) ==
    {n \in 1 .. Len(final_data) : KeyOf(final_data[n]) = KeyOf(item)}

\* within the candidates data: every group of candidates sharing the first
\* three octets and the port has at most one member in final_data, and when
\* the group has a member from the existing set, what final_data holds for
\* the group is such a member
GroupsCollapsed(data) ==
    \A i \in 1 .. Len(data) :
        HasKey(data[i]) =>
            /\ Cardinality(SurvivorsOf(data[i])) <= 1
            /\ (\E j \in GroupOfIndex(data, i) : IsExisting(data[j])) =>
                   \A n \in SurvivorsOf(data[i]) :
                       \E j \in GroupOfIndex(data, i) :
                           /\ IsExisting(data[j])
                           /\ StripSource(data[j]) = final_data[n]

\* C3 as stated: for every input all_data of deduplicate_data, among the
\* candidates of the input that share the first three octets and the port
\* at most one is in the output, and if any of them came from the existing
\* set the survivor is one that came from the existing set.
C3_SubnetCollapseOverInput == Deduplicated => GroupsCollapsed(all_data)

\* C3 as amended: the same among the candidates that are left after the
\* host stage (the first candidate of every host value, existing candidates
\* before fresh ones).
C3_SubnetCollapseAfterHostStage ==
    Deduplicated => GroupsCollapsed(host_unique_data)

\* a group left by the host stage with an existing and a fresh member, of
\* which the output holds the existing one only
C3_Witness ==
    /\ Deduplicated
    /\ \E i, j \in 1 .. Len(host_unique_data) :
          /\ IsExisting(host_unique_data[i])
          /\ IsNew(host_unique_data[j])
          /\ HasKey(host_unique_data[i])
          /\ j \in GroupOfIndex(host_unique_data, i)
          /\ StripSource(host_unique_data[i]) # StripSource(host_unique_data[j])
          /\ \E n \in 1 .. Len(final_data) :
                final_data[n] = StripSource(host_unique_data[i])
          /\ \A n \in 1 .. Len(final_data) :
                final_data[n] # StripSource(host_unique_data[j])

\* C4: deduplication is idempotent: when the program runs again on the CSV
\* file it wrote (the output of deduplicate_data read back as the existing
\* set) and the search finds nothing, deduplicate_data returns the same
\* candidates as the file holds.
C4_DedupeIdempotent ==
    (dpc = "write" /\ run_no > 1 /\ new_data = <<>>) =>
        Range(final_data) = Range(csv_file)

\* a second run that found no fresh candidate, over a file of two rows that
\* the first run wrote
C4_Witness ==
    /\ dpc = "write" /\ run_no > 1 /\ new_data = <<>>
    /\ Len(csv_file) >= 2
    /\ Len(final_data) >= 2

\* the first three parts of the ip field (all of them when there are fewer)
\* and the port
SegmentPort(item) ==
    <<IF Len(item.ip) >= 3 THEN SubSeq(item.ip, 1, 3) ELSE item.ip, item.port>>

\* C28 as claimed: deduplicate_data drops no candidate without keeping one
\* of its group: every candidate left by the host stage is in the output or
\* has the first three octets and the port of a candidate of the output; an
\* existing candidate that collides with no other is kept, whatever the form
\* of its ip field.
C28_RepresentativeKept ==
    Deduplicated =>
        \A i \in 1 .. Len(host_unique_data) :
            \E n \in 1 .. Len(final_data) :
                \/ final_data[n] = StripSource(host_unique_data[i])
                \/ SegmentPort(final_data[n]) = SegmentPort(host_unique_data[i])

\* the ip:port of a candidate
IpPort(item) == <<item.ip, item.port>>

\* the statement as the specification words it: the host stage leaves at most
\* one candidate per exact ip:port, and no fresh candidate with the ip:port
\* of an existing one
C17_HostStageUniqueByIpPort ==
    Deduplicated =>
        /\ \A i, j \in 1 .. Len(host_unique_data) :
              i # j => IpPort(host_unique_data[i]) # IpPort(host_unique_data[j])
        /\ \A n \in 1 .. Len(all_data), j \in 1 .. Len(host_unique_data) :
              (IsExisting(all_data[n]) /\ IsNew(host_unique_data[j])) =>
                  IpPort(host_unique_data[j]) # IpPort(all_data[n])

\* C17: the host stage of deduplicate_data adds the existing candidates
\* first and then every fresh candidate whose host value is not yet present:
\* its output holds exactly one candidate of the input per host value, and
\* for a host value that an existing candidate has, an existing one.
C17_HostStageUniqueByHost ==
    Deduplicated =>
        /\ \A i, j \in 1 .. Len(host_unique_data) :
              i # j => host_unique_data[i].host # host_unique_data[j].host
        /\ \A i \in 1 .. Len(host_unique_data) :
              \E n \in 1 .. Len(all_data) : all_data[n] = host_unique_data[i]
        /\ \A n \in 1 .. Len(all_data) :
              \E i \in 1 .. Len(host_unique_data) :
                  host_unique_data[i].host = all_data[n].host
        /\ \A n \in 1 .. Len(all_data), j \in 1 .. Len(host_unique_data) :
              (IsExisting(all_data[n]) /\ IsNew(host_unique_data[j])) =>
                  host_unique_data[j].host # all_data[n].host

\* an existing and a fresh candidate have the same host value and the host
\* stage kept the existing one, while two candidates of the same ip:port and
\* of different host values are both left
C17_Witness ==
    /\ Deduplicated
    /\ \E n, m \in 1 .. Len(all_data) :
          /\ IsExisting(all_data[n]) /\ IsNew(all_data[m])
          /\ all_data[n].host = all_data[m].host
          /\ \E i \in 1 .. Len(host_unique_data) :
                host_unique_data[i] = all_data[n]
    /\ \E i, j \in 1 .. Len(host_unique_data) :
          /\ i # j
          /\ IpPort(host_unique_data[i]) = IpPort(host_unique_data[j])

---------------------------------------------------------------------------
(* SpecSearch: the paging loops of the FOFA API searches *)

\* largest --max-pages value tried
MaxPagesCfg == 3
\* largest number of pages a response's "size" field stands for
MaxReported == 4
\* the model follows a search for MaxRequests page requests at most
MaxRequests == 6

\* max_pages=None of makecsv.py ("不指定则无限制")
Unlimited == -1

Engines == {"speedtest", "udpxymobile", "makecsv"}

\* what a page request may end in: a JSON body with or without the error
\* field, an exception (HTTP error status, connection error, bad JSON), or
\* Ctrl-C
Responses == {"ok", "error", "exception", "interrupt"}

Min(a, b) == IF a <= b THEN a ELSE b

\* "actual_pages = min(total_pages, self.max_pages)"; makecsv.py takes
\* total_pages when max_pages is None
ApplyLimit(tp, limit) == IF limit = Unlimited THEN tp ELSE Min(tp, limit)

InitSearch ==
    /\ engine \in Engines
    \* main() of speedtest_integrated_new.py refuses max_pages < 1
    /\ max_pages \in (1 .. MaxPagesCfg)
                     \cup (IF engine = "makecsv" THEN {Unlimited} ELSE {})
    /\ all_pages \in (IF engine = "udpxymobile" THEN BOOLEAN ELSE {FALSE})
    /\ page = 1
    /\ total_pages = 0
    /\ actual_pages = 0
    /\ requests = 0
    /\ spc = IF engine = "udpxymobile" THEN "while" ELSE "first"
    /\ IdleSpeed /\ IdleDedupe /\ IdleRun /\ IdleVerify /\ IdleSink
    /\ IdleRetry
    /\ IdleExtract
    /\ IdleProbe
    /\ IdleOther
    /\ IdleStatus

\* search_fofa_api of speedtest_integrated_new.py and of makecsv.py: the
\* request of page 1
FirstRequest ==
    /\ spc = "first"
    /\ requests' = requests + 1
    /\ \E response \in Responses, tp \in 0 .. MaxReported :
          IF response = "ok"
          THEN /\ total_pages' = tp
               /\ actual_pages' = ApplyLimit(tp, max_pages)
               /\ page' = 2
               /\ spc' = IF actual_pages' > 1 THEN "for" ELSE "done"
          ELSE \* "return []" of the handlers
               /\ spc' = "done"
               /\ UNCHANGED <<total_pages, actual_pages, page>>
    /\ UNCHANGED <<engine, max_pages, all_pages>>
    /\ UNCHANGED nonSearchVars

\* the same functions: one turn of "for page in range(2, actual_pages + 1)"
NextRequest ==
    /\ spc = "for"
    /\ requests' = requests + 1
    /\ \E response \in Responses :
          IF response = "interrupt"
          THEN \* break
               /\ spc' = "done"
               /\ UNCHANGED page
          ELSE \* the page is used, or "continue"
               /\ page' = page + 1
               /\ spc' = IF page' > actual_pages THEN "done" ELSE "for"
    /\ UNCHANGED <<engine, max_pages, all_pages, total_pages, actual_pages>>
    /\ UNCHANGED nonSearchVars

\* search_fofa of udpxymobile.py: one turn of "while True"
MobileRequest ==
    /\ spc = "while"
    /\ requests < MaxRequests
    /\ requests' = requests + 1
    /\ \E response \in Responses \ {"interrupt"}, tp \in 0 .. MaxReported :
          IF response = "ok"
          THEN /\ total_pages' = tp
               /\ IF all_pages /\ page < tp
                  THEN page' = page + 1 /\ spc' = "while"
                  ELSE page' = page /\ spc' = "done"
          ELSE \* break
               /\ spc' = "done"
               /\ UNCHANGED <<total_pages, page>>
    /\ UNCHANGED <<engine, max_pages, all_pages, actual_pages>>
    /\ UNCHANGED nonSearchVars

NextSearch ==
    \/ FirstRequest
    \/ NextRequest
    \/ MobileRequest

SpecSearch == InitSearch /\ [][NextSearch]_vars

---------------------------------------------------------------------------
(* Claims about the searches (specification SpecSearch) *)

\* C6: a search whose max_pages is configured issues at most max_pages page
\* requests, whatever totals the backend reports.
C6_AtMostMaxPagesRequests ==
    max_pages # Unlimited => requests <= max_pages

\* the same for the two search_fofa_api functions alone
C6_ApiSearchWithinMaxPages ==
    (engine # "udpxymobile" /\ max_pages # Unlimited) => requests <= max_pages

\* a search_fofa_api that was told of more pages than max_pages and is done
C6_ApiSearchWitness ==
    /\ engine = "speedtest"
    /\ spc = "done"
    /\ total_pages > max_pages
    /\ requests = max_pages
    /\ max_pages > 1

---------------------------------------------------------------------------
(* SpecRun: the four searches of run() and their aggregation *)

\* how many distinct address strings the backends know
MaxAddrs == 2

\* the address strings "ip:port" the backends may return
Addrs == 1 .. MaxAddrs

Backends == <<"fofa", "quake360", "zoomeye", "hunter">>

\* how one search_*_api / search_*_cookie call ends: with results, with an
\* HTTP error status (raise_for_status), with an API error code in the
\* body, or with another exception
Outcomes == {"ok", "http_error", "api_error", "exception"}

\* what a call returns: its handlers return [] on every failure
Returned(outcome, found) == IF outcome = "ok" THEN found ELSE {}

\* a faulty variant: the last list is left out
MergeThree(a, b, c, d) == a \cup b \cup c

\* list(set(fofa_ips + quake_ips + zoomeye_ips + hunter_ips))
Merge(a, b, c, d) == a \cup b \cup c \cup d

\* after __init__: _validate_config has exited unless FOFA_COOKIE and
\* FOFA_USER_AGENT are set; every other credential may be missing
InitRun ==
    /\ fofa_api_key \in BOOLEAN
    /\ quake360_token \in BOOLEAN
    /\ zoomeye_api_key \in BOOLEAN
    /\ zoomeye_cookie \in BOOLEAN
    /\ cube_authorization \in BOOLEAN
    /\ hunter_api_key \in BOOLEAN
    /\ fofa_ips = {} /\ quake_ips = {} /\ zoomeye_ips = {} /\ hunter_ips = {}
    /\ all_ips = {}
    /\ queried = <<>>
    /\ failed = {}
    /\ rpc = "fofa"
    /\ IdleSpeed /\ IdleDedupe /\ IdleSearch /\ IdleVerify /\ IdleSink
    /\ IdleRetry
    /\ IdleExtract
    /\ IdleProbe
    /\ IdleOther
    /\ IdleStatus

\* fofa_ips = self.search_fofa_ips(): the API when a key is set, the cookie
\* search when there is no key or the API gave nothing
SearchFofaIps ==
    /\ rpc = "fofa"
    /\ \E api \in Outcomes, cookie \in Outcomes,
          api_found \in SUBSET Addrs, cookie_found \in SUBSET Addrs :
          LET api_results == Returned(api, api_found)
              cookie_results == Returned(cookie, cookie_found)
          IN  IF fofa_api_key /\ api_results # {}
              THEN /\ fofa_ips' = api_results
                   /\ failed' = failed
              ELSE /\ fofa_ips' = cookie_results
                   /\ failed' = IF cookie = "ok" THEN failed
                                ELSE failed \cup {"fofa"}
    /\ queried' = Append(queried, "fofa")
    /\ rpc' = "quake360"
    /\ UNCHANGED <<fofa_api_key, quake360_token, zoomeye_api_key,
                   zoomeye_cookie, cube_authorization, hunter_api_key,
                   quake_ips, zoomeye_ips, hunter_ips, all_ips>>
    /\ UNCHANGED nonRunVars

\* quake_ips = self.search_quake360_ips()
SearchQuake360Ips ==
    /\ rpc = "quake360"
    /\ IF ~quake360_token
       THEN /\ quake_ips' = {}
            /\ failed' = failed \cup {"quake360"}
       ELSE \E outcome \in Outcomes, found \in SUBSET Addrs :
               /\ quake_ips' = Returned(outcome, found)
               /\ failed' = IF outcome = "ok" THEN failed
                            ELSE failed \cup {"quake360"}
    /\ queried' = Append(queried, "quake360")
    /\ rpc' = "zoomeye"
    /\ UNCHANGED <<fofa_api_key, quake360_token, zoomeye_api_key,
                   zoomeye_cookie, cube_authorization, hunter_api_key,
                   fofa_ips, zoomeye_ips, hunter_ips, all_ips>>
    /\ UNCHANGED nonRunVars

\* zoomeye_ips = self.search_zoomeye_ips(): search_zoomeye_api with a key,
\* search_zoomeye_cookie with cookie and cube-authorization, else []
SearchZoomeyeIps ==
    /\ rpc = "zoomeye"
    /\ IF zoomeye_api_key \/ (zoomeye_cookie /\ cube_authorization)
       THEN \E outcome \in Outcomes, found \in SUBSET Addrs :
               /\ zoomeye_ips' = Returned(outcome, found)
               /\ failed' = IF outcome = "ok" THEN failed
                            ELSE failed \cup {"zoomeye"}
       ELSE /\ zoomeye_ips' = {}
            /\ failed' = failed \cup {"zoomeye"}
    /\ queried' = Append(queried, "zoomeye")
    /\ rpc' = "hunter"
    /\ UNCHANGED <<fofa_api_key, quake360_token, zoomeye_api_key,
                   zoomeye_cookie, cube_authorization, hunter_api_key,
                   fofa_ips, quake_ips, hunter_ips, all_ips>>
    /\ UNCHANGED nonRunVars

\* hunter_ips = self.search_hunter_ips()
SearchHunterIps ==
    /\ rpc = "hunter"
    /\ IF ~hunter_api_key
       THEN /\ hunter_ips' = {}
            /\ failed' = failed \cup {"hunter"}
       ELSE \E outcome \in Outcomes, found \in SUBSET Addrs :
               /\ hunter_ips' = Returned(outcome, found)
               /\ failed' = IF outcome = "ok" THEN failed
                            ELSE failed \cup {"hunter"}
    /\ queried' = Append(queried, "hunter")
    /\ rpc' = "merge"
    /\ UNCHANGED <<fofa_api_key, quake360_token, zoomeye_api_key,
                   zoomeye_cookie, cube_authorization, hunter_api_key,
                   fofa_ips, quake_ips, zoomeye_ips, all_ips>>
    /\ UNCHANGED nonRunVars

\* all_ips = list(set(...)); "if not all_ips: return"
Aggregate ==
    /\ rpc = "merge"
    /\ all_ips' = Merge(fofa_ips, quake_ips, zoomeye_ips, hunter_ips)
    /\ rpc' = IF all_ips' = {} THEN "exit" ELSE "filter"
    /\ UNCHANGED <<fofa_api_key, quake360_token, zoomeye_api_key,
                   zoomeye_cookie, cube_authorization, hunter_api_key,
                   fofa_ips, quake_ips, zoomeye_ips, hunter_ips, queried,
                   failed>>
    /\ UNCHANGED nonRunVars

NextRun ==
    \/ SearchFofaIps
    \/ SearchQuake360Ips
    \/ SearchZoomeyeIps
    \/ SearchHunterIps
    \/ Aggregate

SpecRun == InitRun /\ [][NextRun]_vars

---------------------------------------------------------------------------
(* Claims about run() (specification SpecRun) *)

IpsOf(backend) ==
    CASE backend = "fofa"     -> fofa_ips
      [] backend = "quake360" -> quake_ips
      [] backend = "zoomeye"  -> zoomeye_ips
      [] backend = "hunter"   -> hunter_ips

\* C7: whatever backends fail, all four are queried, a failed backend
\* contributes the empty set, and all_ips is exactly the union of the
\* addresses the four backends returned.
C7_FailureIsolationAndUnion ==
    /\ \A b \in failed : IpsOf(b) = {}
    /\ \A i \in 1 .. Len(queried) : queried[i] = Backends[i]
    /\ rpc \in {"exit", "filter"} =>
          /\ queried = Backends
          /\ all_ips = {a \in Addrs : \E i \in 1 .. 4 : a \in IpsOf(Backends[i])}

\* the aggregation is done after the first backend failed, two backends
\* returned a common address and the last one returned addresses no other
\* backend returned
C7_Witness ==
    /\ rpc = "filter"
    /\ "fofa" \in failed
    /\ hunter_ips # {}
    /\ hunter_ips \cap (quake_ips \cup zoomeye_ips) = {}
    /\ quake_ips \cap zoomeye_ips # {}

---------------------------------------------------------------------------
(* SpecVerify: filter_accessible_ips and the rest of run() *)

\* how many candidates the aggregation hands to filter_accessible_ips
MaxIps == 2

VCands == 1 .. MaxIps

VerifyWorkers == 30

\* what the connect of test_port_connectivity gives: connect_ex returns 0
\* or an error number (refused, timed out), or an exception is raised
ConnectResults == {"0", "ECONNREFUSED", "EAGAIN", "exception"}

\* a faulty variant: every connect result counts as open
PortAny(result) == TRUE

\* test_port_connectivity: "return result == 0", False on an exception
PortOpen(result) == result = "0"

\* status_info: None, or the dictionary of get_udpxy_status
NoneInfo == [none |-> TRUE, status_available |-> FALSE, active_connections |-> 0]
StatusInfos ==
    {[none |-> FALSE, status_available |-> TRUE, active_connections |-> n] :
        n \in 0 .. 1}
    \cup {[none |-> FALSE, status_available |-> FALSE, active_connections |-> 0]}

\* "return None, False, None" (None is written 0)
NoneResult == [ip_port |-> 0, is_udpxy |-> FALSE, status_info |-> NoneInfo]

\* a faulty variant: every reachable candidate counts as udpxy
AcceptAny(result) == TRUE

\* "if result[1]"
AcceptUdpxy(result) == result.is_udpxy

\* sorted(...) of a set of candidates
RECURSIVE Sorted(_)
Sorted(S) ==
    IF S = {} THEN <<>>
    ELSE LET least == CHOOSE x \in S : \A y \in S : x <= y
         IN  <<least>> \o Sorted(S \ {least})

VRunning == {c \in VCands : vtask[c] \in {"reachable", "udpxy"}}

\* run() has found all_ips non-empty and calls filter_accessible_ips: every
\* candidate is submitted to the pool
InitVerify ==
    /\ \E n \in 1 .. MaxIps : filter_list = [i \in 1 .. n |-> i]
    /\ notest \in BOOLEAN
    /\ vtask = [c \in VCands |-> IF c \in Range(filter_list)
                                 THEN "pending" ELSE "none"]
    /\ vresult = [c \in VCands |-> NoneResult]
    /\ connects = [c \in VCands |-> "none"]
    /\ probes = {}
    /\ status_reqs = {}
    /\ collected = {}
    /\ accessible_ips = <<>>
    /\ udpxy_ips = <<>>
    /\ ipfile_sum = <<>>
    /\ ipfile_uniq = <<>>
    /\ basic_report = <<>>
    /\ speed_input = <<>>
    /\ vpc = "collect"
    /\ IdleSpeed /\ IdleDedupe /\ IdleSearch /\ IdleRun /\ IdleSink
    /\ IdleRetry
    /\ IdleExtract
    /\ IdleProbe
    /\ IdleOther
    /\ IdleStatus

\* test_single_ip starts in a worker: test_port_connectivity
TestPortConnectivity(c) ==
    /\ vtask[c] = "pending"
    /\ Cardinality(VRunning) < VerifyWorkers
    /\ \E result \in ConnectResults :
          /\ connects' = [connects EXCEPT ![c] = result]
          /\ IF PortOpen(result)
             THEN /\ vtask' = [vtask EXCEPT ![c] = "reachable"]
                  /\ UNCHANGED vresult
             ELSE /\ vtask' = [vtask EXCEPT ![c] = "finished"]
                  /\ vresult' = [vresult EXCEPT ![c] = NoneResult]
    /\ UNCHANGED <<filter_list, notest, probes, status_reqs, collected,
                   accessible_ips, udpxy_ips, ipfile_sum, ipfile_uniq,
                   basic_report, speed_input, vpc>>
    /\ UNCHANGED nonVerifyVars

\* is_udpxy = self.test_udpxy_service(ip_port)
TestUdpxyService(c) ==
    /\ vtask[c] = "reachable"
    /\ probes' = probes \cup {c}
    /\ \E is_udpxy \in BOOLEAN :
          IF is_udpxy
          THEN /\ vtask' = [vtask EXCEPT ![c] = "udpxy"]
               /\ UNCHANGED vresult
          ELSE /\ vtask' = [vtask EXCEPT ![c] = "finished"]
               /\ vresult' = [vresult EXCEPT ![c] =
                     [ip_port |-> c, is_udpxy |-> FALSE,
                      status_info |-> NoneInfo]]
    /\ UNCHANGED <<filter_list, notest, connects, status_reqs, collected,
                   accessible_ips, udpxy_ips, ipfile_sum, ipfile_uniq,
                   basic_report, speed_input, vpc>>
    /\ UNCHANGED nonVerifyVars

\* status_info = self.get_udpxy_status(ip_port)
GetUdpxyStatus(c) ==
    /\ vtask[c] = "udpxy"
    /\ status_reqs' = status_reqs \cup {c}
    /\ \E info \in StatusInfos :
          vresult' = [vresult EXCEPT ![c] =
              [ip_port |-> c, is_udpxy |-> TRUE, status_info |-> info]]
    /\ vtask' = [vtask EXCEPT ![c] = "finished"]
    /\ UNCHANGED <<filter_list, notest, connects, probes, collected,
                   accessible_ips, udpxy_ips, ipfile_sum, ipfile_uniq,
                   basic_report, speed_input, vpc>>
    /\ UNCHANGED nonVerifyVars

\* one turn of "for future in as_completed(futures)"
CollectResult(c) ==
    /\ vpc = "collect"
    /\ vtask[c] = "finished"
    /\ c \notin collected
    /\ collected' = collected \cup {c}
    /\ IF vresult[c].ip_port # 0
       THEN /\ accessible_ips' = Append(accessible_ips, vresult[c].ip_port)
            /\ udpxy_ips' = IF AcceptUdpxy(vresult[c])
                            THEN Append(udpxy_ips, vresult[c].ip_port)
                            ELSE udpxy_ips
       ELSE UNCHANGED <<accessible_ips, udpxy_ips>>
    /\ UNCHANGED <<filter_list, notest, vtask, vresult, connects, probes,
                   status_reqs, ipfile_sum, ipfile_uniq, basic_report,
                   speed_input, vpc>>
    /\ UNCHANGED nonVerifyVars

\* the loop is over: the two files are written and the list is returned
WriteIpFiles ==
    /\ vpc = "collect"
    /\ collected = Range(filter_list)
    /\ ipfile_sum' = accessible_ips
    /\ ipfile_uniq' = Sorted(Range(udpxy_ips))
    /\ vpc' = "filtered"
    /\ UNCHANGED <<filter_list, notest, vtask, vresult, connects, probes,
                   status_reqs, collected, accessible_ips, udpxy_ips,
                   basic_report, speed_input>>
    /\ UNCHANGED nonVerifyVars

\* run() after filter_accessible_ips: return when nothing is left,
\* _save_basic_results with notest, else run_speed_tests(udpxy_ips)
RunAfterFilter ==
    /\ vpc = "filtered"
    /\ LET unique_udpxy_ips == Sorted(Range(udpxy_ips))
       IN  IF unique_udpxy_ips = <<>>
           THEN /\ vpc' = "exit"
                /\ UNCHANGED <<ipfile_sum, ipfile_uniq, basic_report,
                               speed_input>>
           ELSE IF notest
           THEN /\ ipfile_sum' = unique_udpxy_ips
                /\ ipfile_uniq' = unique_udpxy_ips
                /\ basic_report' = unique_udpxy_ips
                /\ vpc' = "done"
                /\ UNCHANGED speed_input
           ELSE /\ speed_input' = unique_udpxy_ips
                /\ vpc' = "speedtest"
                /\ UNCHANGED <<ipfile_sum, ipfile_uniq, basic_report>>
    /\ UNCHANGED <<filter_list, notest, vtask, vresult, connects, probes,
                   status_reqs, collected, accessible_ips, udpxy_ips>>
    /\ UNCHANGED nonVerifyVars

NextVerify ==
    \/ \E c \in VCands : TestPortConnectivity(c)
    \/ \E c \in VCands : TestUdpxyService(c)
    \/ \E c \in VCands : GetUdpxyStatus(c)
    \/ \E c \in VCands : CollectResult(c)
    \/ WriteIpFiles
    \/ RunAfterFilter

SpecVerify == InitVerify /\ [][NextVerify]_vars

---------------------------------------------------------------------------
(* Claims about the verification (specification SpecVerify) *)

\* the TCP connect of test_port_connectivity was made for c and failed
ConnectFailed(c) == connects[c] \notin {"none", "0"}

\* verification of c has returned isTargetService = false
NotTarget(c) == vtask[c] = "finished" /\ ~vresult[c].is_udpxy

\* C8: when the TCP connect to a candidate fails, test_single_ip returns at
\* once with is_udpxy = False: test_udpxy_service and get_udpxy_status are
\* never called for that candidate.
C8_NoProbeAfterConnectFailure ==
    \A c \in VCands :
        ConnectFailed(c) =>
            /\ c \notin probes
            /\ c \notin status_reqs
            /\ vtask[c] = "finished"
            /\ vresult[c] = NoneResult

\* a candidate whose connect was refused while another candidate was probed
\* and asked for its status, all results collected
C8_Witness ==
    /\ vpc = "filtered"
    /\ \E c, d \in VCands :
          /\ connects[c] = "ECONNREFUSED"
          /\ d \in probes /\ d \in status_reqs

\* C9 as stated: a candidate with isTargetService = false is never written
\* to any output file and never passed to the speed tester.
C9_NonTargetNeverWritten ==
    \A c \in VCands :
        NotTarget(c) =>
            /\ c \notin Range(ipfile_sum)
            /\ c \notin Range(ipfile_uniq)
            /\ c \notin Range(basic_report)
            /\ c \notin Range(speed_input)

\* C9 as amended: such a candidate is never passed to the speed tester and
\* never written to the udpxy list file or the basic report; an unreachable
\* one is written to no file; a reachable one is written to the file of
\* accessible addresses, where it stays unless _save_basic_results rewrites
\* that file.
C9_NonTargetNeverTested ==
    \A c \in VCands :
        NotTarget(c) =>
            /\ c \notin Range(ipfile_uniq)
            /\ c \notin Range(basic_report)
            /\ c \notin Range(speed_input)
            /\ vresult[c].ip_port = 0 => c \notin Range(ipfile_sum)
            /\ vpc = "done" => c \notin Range(ipfile_sum)
            /\ (vresult[c].ip_port # 0 /\ vpc \in {"filtered", "exit", "speedtest"})
                   => c \in Range(ipfile_sum)

\* a reachable candidate that is not udpxy sits in the file of accessible
\* addresses while another candidate went to the speed tester
C9_Witness ==
    /\ vpc = "speedtest"
    /\ \E c, d \in VCands :
          /\ NotTarget(c)
          /\ c \in Range(ipfile_sum)
          /\ d \in Range(speed_input)
          /\ c \notin Range(speed_input)

---------------------------------------------------------------------------
(* SpecSink: the two result loops of run_speed_tests, one file operation at
   a time.  The as_completed timeouts are left to Spec; here every future is
   yielded, and every open() / write() of the speed-test log, of a result
   file and of a playlist may fail. *)

\* threads: the caller of run_speed_tests and the workers of the pool
MainThread == <<"main", 0>>
WorkerThread(c) == <<"worker", c>>

LogFile == <<"log", DefaultKey>>
ResultFile(key) == <<"result", key>>
PlaylistFile(key) == <<"playlist", key>>

SinkFiles ==
    {LogFile} \cup {ResultFile(k) : k \in FileKeys}
              \cup {PlaylistFile(k) : k \in FileKeys}

\* the speeds a probe reports here: one below and one above the 0.1 MB/s
\* threshold of _append_result_immediately
SinkSpeeds == {80, 200}

\* what a task of the running pool can return for candidate c
SinkResults(c) ==
    IF phase = 1
    THEN {None} \cup {Result(c, s, 0) : s \in SinkSpeeds}
    ELSE {None} \cup {Result(c, s, k) :
                          s \in SinkSpeeds, k \in Range(remaining_configs)}

\* a faulty variant: every worker writes the result of its own probe
HandledByWorker(c) == WorkerThread(c)

\* the body of the `for future in as_completed(...)` loop runs in the thread
\* that called run_speed_tests, whichever worker ran the probe
HandlerOf(c) == MainThread

\* a thread runs one loop body at a time
HandlerFree(c) ==
    \A d \in Cands :
        (d # c /\ HandlerOf(d) = HandlerOf(c)) => hstate[d] \in {"none", "done"}

\* a faulty variant: nothing is written to the files
NeverWritten(r) == FALSE

\* `if result['speed'] <= 0.1: return` negated
WorthWriting(r) == r.speed > MinWriteSpeed

\* a faulty variant: the exception leaves the loop body
SinkErrorRaised(next) == "done"

\* `except Exception as e: print(...)` of _append_result_immediately: the
\* call returns and the caller goes on with its next statement
SinkErrorCaught(next) == next

Open(f, t) == [writers EXCEPT ![f] = @ \cup {t}]
Close(f, t) == [writers EXCEPT ![f] = @ \ {t}]

\* a write to a result file or a playlist, or their initialisation, has failed
SinkWriteFailed == \E w \in write_failed : w[1] # LogFile

\* the history of what happens after such a failure
Late(event) == IF SinkWriteFailed THEN late \cup {event} ELSE late

sinkSpeedVars ==
    <<fast, task1, res1, task2, res2, idx2, tried2, waiter, batch, unyielded,
      scan>>

nonSinkVars ==
    <<dedupeVars, searchVars, runVars, verifyVars, retryVars, extractVars,
      probeVars, otherVars, statusVars>>

InitSink ==
    /\ \E n \in 1 .. MaxCands : ip_list = [i \in 1 .. n |-> i]
    /\ pc = "sink_start"
    /\ phase = 1
    /\ htask = [c \in Cands |-> "none"]
    /\ hres = [c \in Cands |-> None]
    /\ hstate = [c \in Cands |-> "none"]
    /\ writers = [f \in SinkFiles |-> {}]
    /\ write_failed = {}
    /\ late = {}
    /\ failed_ips = <<>>
    /\ speed_results = <<>>
    /\ speedtest_log = <<StaleLine>>
    /\ result_files = [k \in FileKeys |-> <<StaleLine>>]
    /\ playlists = [k \in FileKeys |-> <<0>>]
    /\ fast = FALSE
    /\ task1 = <<>> /\ res1 = <<>> /\ task2 = <<>> /\ res2 = <<>>
    /\ idx2 = <<>> /\ tried2 = <<>> /\ waiter = <<>> /\ batch = <<>>
    /\ unyielded = {} /\ scan = 0
    /\ IdleDedupe /\ IdleSearch /\ IdleRun /\ IdleVerify /\ IdleRetry
    /\ IdleExtract
    /\ IdleProbe
    /\ IdleOther
    /\ IdleStatus

\* the log removed, _initialize_result_files, the phase-1 tasks submitted.
\* failure: "none", or the file whose open(..., 'w') raises
InitializeResultFiles(failure) ==
    /\ pc = "sink_start"
    /\ speedtest_log' = <<>>
    /\ result_files' =
           IF failure = "result" THEN result_files
           ELSE [result_files EXCEPT ![DefaultKey] = <<>>]
    /\ playlists' =
           IF failure = "none" THEN [playlists EXCEPT ![DefaultKey] = <<>>]
           ELSE playlists
    /\ write_failed' =
           CASE failure = "result" ->
                    write_failed \cup {<<ResultFile(DefaultKey), 0, phase>>}
             [] failure = "playlist" ->
                    write_failed \cup {<<PlaylistFile(DefaultKey), 0, phase>>}
             [] OTHER -> write_failed
    \* the except clause prints and returns: the tasks are submitted
    /\ htask' = [c \in Cands |->
                    IF c \in Range(ip_list) THEN "pending" ELSE "none"]
    /\ pc' = "sink_loop"
    /\ UNCHANGED <<ip_list, failed_ips, speed_results, phase, hres, hstate,
                   writers, late>>
    /\ UNCHANGED <<sinkSpeedVars, nonSinkVars>>

\* a worker of the pool takes a task
SinkStart(c) ==
    /\ pc = "sink_loop"
    /\ htask[c] = "pending"
    /\ Cardinality(Running(htask))
           < (IF phase = 1 THEN Phase1Workers ELSE Phase2Workers)
    /\ htask' = [htask EXCEPT ![c] = "running"]
    /\ late' = Late(<<"probe", c>>)
    /\ UNCHANGED <<ip_list, pc, failed_ips, speed_results, speedtest_log,
                   result_files, playlists, phase, hres, hstate, writers,
                   write_failed>>
    /\ UNCHANGED <<sinkSpeedVars, nonSinkVars>>

\* the task returns; a worker writes to no file
SinkFinish(c) ==
    /\ htask[c] = "running"
    /\ \E r \in SinkResults(c) : hres' = [hres EXCEPT ![c] = r]
    /\ htask' = [htask EXCEPT ![c] = "finished"]
    /\ UNCHANGED <<ip_list, pc, failed_ips, speed_results, speedtest_log,
                   result_files, playlists, phase, hstate, writers,
                   write_failed, late>>
    /\ UNCHANGED <<sinkSpeedVars, nonSinkVars>>

\* the loop body starts on a completed future: a failure is noted, for a
\* success the log is opened
SinkYield(c) ==
    /\ pc = "sink_loop"
    /\ htask[c] = "finished"
    /\ hstate[c] = "none"
    /\ HandlerFree(c)
    /\ late' = Late(<<"handle", c>>)
    /\ IF hres[c] = None
       THEN /\ failed_ips' =
                   IF phase = 1 THEN Append(failed_ips, c) ELSE failed_ips
            /\ hstate' = [hstate EXCEPT ![c] = "done"]
            /\ UNCHANGED writers
       ELSE /\ hstate' = [hstate EXCEPT ![c] = "log"]
            /\ writers' = Open(LogFile, HandlerOf(c))
            /\ UNCHANGED failed_ips
    /\ UNCHANGED <<ip_list, pc, speed_results, speedtest_log, result_files,
                   playlists, phase, htask, hres, write_failed>>
    /\ UNCHANGED <<sinkSpeedVars, nonSinkVars>>

\* f.write of the log line and the end of the with block.  An exception is
\* caught by the `except Exception` of the loop body: in phase 1 the candidate
\* joins failed_ips, in phase 2 a message is printed
SinkLogWrite(c, ok) ==
    /\ hstate[c] = "log"
    /\ writers' = Close(LogFile, HandlerOf(c))
    /\ IF ok
       THEN /\ speedtest_log' = AppendLine(speedtest_log, ResultLine(hres[c]))
            /\ hstate' = [hstate EXCEPT ![c] = "logged"]
            /\ UNCHANGED <<failed_ips, write_failed>>
       ELSE /\ write_failed' = write_failed \cup {<<LogFile, c, phase>>}
            /\ failed_ips' =
                   IF phase = 1 THEN Append(failed_ips, c) ELSE failed_ips
            /\ hstate' = [hstate EXCEPT ![c] = "done"]
            /\ UNCHANGED speedtest_log
    /\ UNCHANGED <<ip_list, pc, speed_results, result_files, playlists,
                   phase, htask, hres, late>>
    /\ UNCHANGED <<sinkSpeedVars, nonSinkVars>>

\* _append_result_immediately up to open(result_file, 'a')
SinkResultOpen(c) ==
    /\ hstate[c] = "logged"
    /\ IF WorthWriting(hres[c])
       THEN /\ writers' = Open(ResultFile(ResultKey(hres[c])), HandlerOf(c))
            /\ hstate' = [hstate EXCEPT ![c] = "result"]
       ELSE /\ hstate' = [hstate EXCEPT ![c] = "append"]
            /\ UNCHANGED writers
    /\ UNCHANGED <<ip_list, pc, failed_ips, speed_results, speedtest_log,
                   result_files, playlists, phase, htask, hres, write_failed,
                   late>>
    /\ UNCHANGED <<sinkSpeedVars, nonSinkVars>>

\* f.write of the result line and the end of the with block
SinkResultWrite(c, ok) ==
    /\ hstate[c] = "result"
    /\ writers' = Close(ResultFile(ResultKey(hres[c])), HandlerOf(c))
    /\ IF ok
       THEN /\ result_files' =
                   [result_files EXCEPT ![ResultKey(hres[c])] =
                        AppendLine(@, ResultLine(hres[c]))]
            /\ hstate' = [hstate EXCEPT ![c] = "written"]
            /\ UNCHANGED write_failed
       ELSE /\ write_failed' =
                   write_failed \cup {<<ResultFile(ResultKey(hres[c])), c, phase>>}
            /\ hstate' = [hstate EXCEPT ![c] = SinkErrorCaught("append")]
            /\ UNCHANGED result_files
    /\ UNCHANGED <<ip_list, pc, failed_ips, speed_results, speedtest_log,
                   playlists, phase, htask, hres, late>>
    /\ UNCHANGED <<sinkSpeedVars, nonSinkVars>>

\* the template looked up and open(output_file, 'a')
SinkPlaylistOpen(c) ==
    /\ hstate[c] = "written"
    /\ IF TemplateExists(ResultKey(hres[c]))
       THEN /\ writers' = Open(PlaylistFile(ResultKey(hres[c])), HandlerOf(c))
            /\ hstate' = [hstate EXCEPT ![c] = "playlist"]
       ELSE /\ hstate' = [hstate EXCEPT ![c] = "append"]
            /\ UNCHANGED writers
    /\ UNCHANGED <<ip_list, pc, failed_ips, speed_results, speedtest_log,
                   result_files, playlists, phase, htask, hres, write_failed,
                   late>>
    /\ UNCHANGED <<sinkSpeedVars, nonSinkVars>>

\* f.write of the playlist entries and the end of the with block
SinkPlaylistWrite(c, ok) ==
    /\ hstate[c] = "playlist"
    /\ writers' = Close(PlaylistFile(ResultKey(hres[c])), HandlerOf(c))
    /\ IF ok
       THEN /\ playlists' =
                   [playlists EXCEPT ![ResultKey(hres[c])] =
                        AppendLine(@, hres[c].ip)]
            /\ UNCHANGED write_failed
       ELSE /\ write_failed' =
                   write_failed \cup {<<PlaylistFile(ResultKey(hres[c])), c, phase>>}
            /\ UNCHANGED playlists
    /\ hstate' = [hstate EXCEPT ![c] =
                      IF ok THEN "append" ELSE SinkErrorCaught("append")]
    /\ UNCHANGED <<ip_list, pc, failed_ips, speed_results, speedtest_log,
                   result_files, phase, htask, hres, late>>
    /\ UNCHANGED <<sinkSpeedVars, nonSinkVars>>

\* speed_results.append(result), the statement after the call
SinkAppend(c) ==
    /\ hstate[c] = "append"
    /\ speed_results' = Append(speed_results, hres[c])
    /\ hstate' = [hstate EXCEPT ![c] = "done"]
    /\ UNCHANGED <<ip_list, pc, failed_ips, speedtest_log, result_files,
                   playlists, phase, htask, hres, writers, write_failed, late>>
    /\ UNCHANGED <<sinkSpeedVars, nonSinkVars>>

\* every future of the pool has been handled
SinkAllHandled ==
    \A c \in Cands : htask[c] # "none" => hstate[c] = "done"

\* the end of the phase-1 block: `if failed_ips and not self.fast` submits the
\* phase-2 tasks, otherwise run_speed_tests returns
SinkNextPhase ==
    /\ pc = "sink_loop"
    /\ SinkAllHandled
    /\ IF phase = 1 /\ failed_ips # <<>>
       THEN /\ phase' = 2
            /\ htask' = [c \in Cands |->
                            IF c \in Range(failed_ips) THEN "pending"
                            ELSE "none"]
            /\ hres' = [c \in Cands |-> None]
            /\ hstate' = [c \in Cands |-> "none"]
            /\ UNCHANGED pc
       ELSE /\ pc' = "sink_done"
            /\ UNCHANGED <<phase, htask, hres, hstate>>
    /\ UNCHANGED <<ip_list, failed_ips, speed_results, speedtest_log,
                   result_files, playlists, writers, write_failed, late>>
    /\ UNCHANGED <<sinkSpeedVars, nonSinkVars>>

NextSink ==
    \/ \E failure \in {"none", "result", "playlist"} :
           InitializeResultFiles(failure)
    \/ \E c \in Cands : SinkStart(c)
    \/ \E c \in Cands : SinkFinish(c)
    \/ \E c \in Cands : SinkYield(c)
    \/ \E c \in Cands, ok \in BOOLEAN : SinkLogWrite(c, ok)
    \/ \E c \in Cands : SinkResultOpen(c)
    \/ \E c \in Cands, ok \in BOOLEAN : SinkResultWrite(c, ok)
    \/ \E c \in Cands : SinkPlaylistOpen(c)
    \/ \E c \in Cands, ok \in BOOLEAN : SinkPlaylistWrite(c, ok)
    \/ \E c \in Cands : SinkAppend(c)
    \/ SinkNextPhase

SpecSink == InitSink /\ [][NextSink]_vars

\* C11: writes to an output file of the result sink (the speed-test log, a
\* result file, a playlist) are serialized: at no moment do two threads have
\* the same file open for writing.
C11_WritesSerialized ==
    \A f \in DOMAIN writers : Cardinality(writers[f]) <= 1

\* the log is open for a write while another probe of the pool has finished
\* with a success that waits to be handled
C11_Witness ==
    \E c \in Cands, d \in Cands :
        /\ c # d
        /\ hstate[c] = "log"
        /\ writers[LogFile] = {MainThread}
        /\ htask[d] = "finished" /\ hres[d] # None /\ hstate[d] = "none"

\* the writes of candidate c's result in the running phase that failed
FailedWrites(c) == {w \in write_failed : w[2] = c /\ w[3] = phase}

\* the statement as the specification words it: once a write to a result
\* file or a playlist, or their initialisation, has failed, no further
\* candidate is probed or handled
C12_WriteFailureStopsRun == late = {}

\* C12: a failed write to a result file or to a playlist (or a failed
\* initialisation of them) is caught inside _append_result_immediately /
\* _initialize_result_files: the run goes on, and the result whose write
\* failed is still appended to speed_results; every success whose log line
\* was written ends in speed_results.
C12_WriteFailureIsCaught ==
    \A c \in Cands :
        (/\ hstate[c] = "done"
         /\ hres[c] # None
         /\ <<LogFile, c, phase>> \notin write_failed)
        => hres[c] \in Range(speed_results)

\* the write of a result line has failed, that result is in speed_results,
\* and another candidate was probed or handled afterwards
C12_Witness ==
    \E c \in Cands :
        /\ hstate[c] = "done"
        /\ hres[c] # None
        /\ \E w \in FailedWrites(c) : w[1] = ResultFile(ResultKey(hres[c]))
        /\ hres[c] \in Range(speed_results)
        /\ \E d \in Cands : d # c /\ <<"handle", d>> \in late

\* the candidates of this run that have a line in a result file
FileCandidates ==
    {c \in Cands :
        \E k \in FileKeys : \E i \in 1 .. Len(result_files[k]) :
            result_files[k][i].ip = c}

\* the candidates a success of which the loop has handled so far
HandledSuccesses ==
    {r.ip : r \in Range(speed_results)}
        \cup {c \in Cands : hstate[c] = "done" /\ hres[c] # None}

\* the futures whose loop body is under way
BeingHandled == {c \in Cands : hstate[c] \notin {"none", "done"}}

\* the statement as the specification words it: between two loop bodies the
\* candidates present in the result files are exactly the successes handled
\* so far
C15_FilesHoldExactlyHandledSuccesses ==
    BeingHandled = {} => FileCandidates = HandledSuccesses

\* C15: the loop handles one completed probe at a time, and a handled success
\* faster than 0.1 MB/s none of whose writes failed has its line in the result
\* file of its catalog entry, and is in speed_results, before the next
\* completed probe is handled; the candidates present in the result files are
\* among the successes handled so far or under way.  A success of 0.1 MB/s or
\* less is kept in speed_results and in the log only.
C15_RecordedBeforeNextHandled ==
    /\ Cardinality(BeingHandled) <= 1
    /\ \A c \in Cands :
           (/\ hstate[c] = "done"
            /\ hres[c] # None
            /\ hres[c].speed > MinWriteSpeed
            /\ FailedWrites(c) = {})
           => /\ \E i \in 1 .. Len(result_files[ResultKey(hres[c])]) :
                     result_files[ResultKey(hres[c])][i] = ResultLine(hres[c])
              /\ hres[c] \in Range(speed_results)
    /\ FileCandidates \subseteq
           HandledSuccesses
               \cup {c \in Cands :
                         hstate[c] \in {"written", "playlist", "append"}}

\* a fast success is in its result file and a slow success has been handled
\* without a line, while the body of the loop is not running
C15_Witness ==
    \E c \in Cands, d \in Cands :
        /\ BeingHandled = {}
        /\ hstate[c] = "done" /\ hres[c] # None
        /\ hres[c].speed > MinWriteSpeed
        /\ c \in FileCandidates
        /\ hstate[d] = "done" /\ hres[d] # None
        /\ hres[d].speed <= MinWriteSpeed
        /\ d \notin FileCandidates

---------------------------------------------------------------------------
(* SpecRetry: the HTTP requests of search_fofa_api and search_fofa_cookie of
   speedtest_integrated_new.py, one request at a time.  The variables of
   SpecSearch are used with their meaning there. *)

\* Retry(total=3, ...) of _create_session_with_retry
RetryTotal == 3

\* status_forcelist of _create_session_with_retry
status_forcelist == {429, 500, 502, 503, 504}

\* the statuses a FOFA answer is given here
HttpStatuses == {200, 429, 503}

\* the session each search function creates
SessionOf(fn) == IF fn = "search_fofa_cookie" THEN "retry" ELSE "plain"

\* how often the adapter of a session sends a request again by itself:
\* max_retries of the mounted HTTPAdapter, none for requests.Session()
MaxRetriesOf(kind) == IF kind = "retry" THEN RetryTotal ELSE 0

nonRetryVars ==
    <<speedVars, dedupeVars, runVars, verifyVars, sinkVars, extractVars,
      probeVars, otherVars, statusVars>>

InitRetry ==
    /\ engine \in {"search_fofa_api", "search_fofa_cookie"}
    /\ session = SessionOf(engine)
    /\ max_pages \in 1 .. MaxPagesCfg
    /\ all_pages = FALSE
    /\ page = 1
    /\ total_pages = 0
    /\ actual_pages = 0
    /\ requests = 0
    /\ attempt = 0
    /\ last = <<>>
    /\ spc = "first"
    /\ IdleSpeed /\ IdleDedupe /\ IdleRun /\ IdleVerify /\ IdleSink
    /\ IdleExtract
    /\ IdleProbe
    /\ IdleOther
    /\ IdleStatus

\* the request of `page` is answered
Answered(status) ==
    /\ requests' = requests + 1
    /\ last' = [page |-> page, status |-> status, retry |-> attempt]

\* the adapter sends the request again: session.get has not returned
Retried(status) ==
    status \in status_forcelist /\ attempt < MaxRetriesOf(session)

\* session.get of page 1 with what follows it.  A status of the forcelist is
\* answered by a re-request while the adapter has retries left; after that,
\* or with a plain session, raise_for_status or the adapter raises and the
\* handlers of the function return [].
RetryFirstRequest ==
    /\ spc = "first"
    /\ \E status \in HttpStatuses, body \in {"ok", "error"},
          tp \in 0 .. MaxReported :
          /\ Answered(status)
          /\ IF Retried(status)
             THEN /\ attempt' = attempt + 1
                  /\ UNCHANGED <<page, total_pages, actual_pages, spc>>
             ELSE /\ attempt' = 0
                  /\ IF status = 200 /\ body = "ok"
                     THEN /\ total_pages' = tp
                          /\ actual_pages' = Min(tp, max_pages)
                          /\ page' = 2
                          /\ spc' = IF actual_pages' > 1 THEN "for" ELSE "done"
                     ELSE /\ spc' = "done"
                          /\ UNCHANGED <<page, total_pages, actual_pages>>
    /\ UNCHANGED <<engine, max_pages, all_pages, session>>
    /\ UNCHANGED nonRetryVars

\* session.get of a later page inside `for page in range(2, actual_pages+1)`:
\* an exception and an error body end in `continue`
RetryNextRequest ==
    /\ spc = "for"
    /\ \E status \in HttpStatuses :
          /\ Answered(status)
          /\ IF Retried(status)
             THEN /\ attempt' = attempt + 1
                  /\ UNCHANGED <<page, spc>>
             ELSE /\ attempt' = 0
                  /\ page' = page + 1
                  /\ spc' = IF page' > actual_pages THEN "done" ELSE "for"
    /\ UNCHANGED <<engine, max_pages, all_pages, total_pages, actual_pages,
                   session>>
    /\ UNCHANGED nonRetryVars

NextRetry ==
    \/ RetryFirstRequest
    \/ RetryNextRequest

SpecRetry == InitRetry /\ [][NextRetry]_vars

\* C18 as claimed: after a page request answered with 429 or 5xx that was not
\* yet the third retry of its page, the search is about to request the same
\* page again: it has neither gone to the next page nor ended.
C18_SamePageRetried ==
    (last # <<>> /\ last.status \in status_forcelist
                 /\ last.retry < RetryTotal)
        => (spc # "done" /\ page = last.page)

---------------------------------------------------------------------------
(* SpecExtract: _extract_fofa_api_results, _extract_quake360_results and
   _extract_hunter_results of speedtest_integrated_new.py.  Strings are
   sequences of characters; a value of the decoded JSON is a string, an
   integer or None. *)

\* raw hits per answer
MaxHits == 2

PyStr(s) == [t |-> "str", v |-> s]
PyInt(n) == [t |-> "int", v |-> n]
PyNone == [t |-> "none", v |-> 0]

\* truth value of a Python object: None, 0 and "" are false
Truthy(x) ==
    CASE x.t = "int" -> x.v # 0
      [] x.t = "str" -> x.v # <<>>
      [] OTHER -> FALSE

Digits == <<"0", "1", "2", "3", "4", "5", "6", "7", "8", "9">>

IsDigit(ch) == \E d \in 1 .. 10 : Digits[d] = ch

RECURSIVE IntToStr(_)
\* str() of a non-negative integer
IntToStr(n) ==
    IF n < 10 THEN <<Digits[n + 1]>>
    ELSE Append(IntToStr(n \div 10), Digits[(n % 10) + 1])

\* str(x), the conversion an f-string applies
PyToStr(x) ==
    CASE x.t = "int" -> IntToStr(x.v)
      [] x.t = "str" -> x.v
      [] OTHER -> <<"N", "o", "n", "e">>

RECURSIVE StrToInt(_)
\* int() of a string of digits
StrToInt(s) ==
    IF s = <<>> THEN 0
    ELSE 10 * StrToInt(SubSeq(s, 1, Len(s) - 1))
         + (CHOOSE d \in 0 .. 9 : Digits[d + 1] = s[Len(s)])

\* s.isdigit()
IsNumeric(s) == s # <<>> /\ \A i \in 1 .. Len(s) : IsDigit(s[i])

RECURSIVE Split(_, _)
\* s.split(sep) for a separator of one character
Split(s, sep) ==
    IF \A i \in 1 .. Len(s) : s[i] # sep THEN <<s>>
    ELSE LET k == CHOOSE i \in 1 .. Len(s) :
                      s[i] = sep /\ \A j \in 1 .. (i - 1) : s[j] # sep
         IN  <<SubSeq(s, 1, k - 1)>> \o Split(SubSeq(s, k + 1, Len(s)), sep)

StartsWith(s, prefix) ==
    Len(s) >= Len(prefix) /\ SubSeq(s, 1, Len(prefix)) = prefix

\* re.match(r'^\d{1,3}\.\d{1,3}\.\d{1,3}\.\d{1,3}$', s)
MatchIpv4(s) ==
    LET parts == Split(s, ".")
    IN  /\ Len(parts) = 4
        /\ \A i \in 1 .. 4 : Len(parts[i]) \in 1 .. 3 /\ IsNumeric(parts[i])

Http == <<"h", "t", "t", "p", ":", "/", "/">>
Https == <<"h", "t", "t", "p", "s", ":", "/", "/">>

\* the cleaning of the ip field in _extract_fofa_api_results
CleanFofaIp(s) ==
    LET bare == IF StartsWith(s, Http) THEN SubSeq(s, 8, Len(s))
                ELSE IF StartsWith(s, Https) THEN SubSeq(s, 9, Len(s))
                ELSE s
    IN  Split(bare, ":")[1]

\* f"{ip}:{port}"
IpPortString(ip, port) == ip \o <<":">> \o PyToStr(port)

\* one turn of the loop of _extract_fofa_api_results: what result adds
FofaApiResult(result) ==
    IF Len(result) >= 2 /\ Truthy(result[1]) /\ Truthy(result[2])
       /\ MatchIpv4(CleanFofaIp(PyToStr(result[1])))
    THEN <<IpPortString(CleanFofaIp(PyToStr(result[1])), result[2])>>
    ELSE <<>>

\* one turn of the loop of _extract_hunter_results
HunterResult(item) ==
    IF Truthy(item.ip) /\ Truthy(item.port) /\ MatchIpv4(PyToStr(item.ip))
    THEN <<IpPortString(PyToStr(item.ip), item.port)>>
    ELSE <<>>

\* one turn of the loop of _extract_quake360_results.  The conditional
\* expression binds weaker than `or`: each of ip and port is the or-chain of
\* its fields when item['service'] is a dict, and None otherwise.  The item's
\* ip and port stand for the first true field of the chain.
Quake360Result(item) ==
    LET ip == IF item.service = "dict" THEN item.ip ELSE PyNone
        port == IF item.service = "dict" THEN item.port ELSE PyNone
    IN  IF Truthy(ip) /\ Truthy(port) /\ MatchIpv4(PyToStr(ip))
        THEN <<IpPortString(PyToStr(ip), port)>>
        ELSE <<>>

RECURSIVE FlatMap(_, _)
FlatMap(F(_), s) ==
    IF s = <<>> THEN <<>> ELSE F(Head(s)) \o FlatMap(F, Tail(s))

_extract_fofa_api_results(results) == FlatMap(FofaApiResult, results)
_extract_quake360_results(data_list) == FlatMap(Quake360Result, data_list)
_extract_hunter_results(data_list) == FlatMap(HunterResult, data_list)

Ip1234 == <<"1", ".", "2", ".", "3", ".", "4">>

\* ip fields of raw hits: an address, an address inside a URL, a host name,
\* three octets only, nothing
RawIps ==
    {PyStr(Ip1234), PyStr(Http \o Ip1234 \o <<":", "8", "1">>),
     PyStr(<<"t", "v", ".", "e", "x">>), PyStr(<<"1", ".", "2", ".", "3">>),
     PyNone}

\* port fields of raw hits
RawPorts ==
    {PyInt(80), PyInt(0), PyInt(70000), PyInt(65535), PyStr(<<"8", "0">>),
     PyStr(<<"a", "b", "c">>), PyNone}

\* rows of the "results" array of FOFA: [ip, port, ...] or shorter
FofaHits ==
    {<<ip>> : ip \in RawIps} \cup {<<ip, port>> : ip \in RawIps, port \in RawPorts}

\* items of the "data" / "arr" arrays of Quake360 and Hunter
DictHits ==
    [ip : RawIps, port : RawPorts, service : {"dict", "none"}]

Extractors == {"fofa_api", "quake360", "hunter"}

nonExtractVars ==
    <<speedVars, dedupeVars, searchVars, runVars, verifyVars, sinkVars,
      retryVars, probeVars, otherVars, statusVars>>

InitExtract ==
    /\ extractor \in Extractors
    /\ hits \in SeqsUpTo(IF extractor = "fofa_api" THEN FofaHits ELSE DictHits,
                         MaxHits)
    /\ ip_ports = <<>>
    /\ xpc = "call"
    /\ IdleSpeed /\ IdleDedupe /\ IdleSearch /\ IdleRun /\ IdleVerify
    /\ IdleSink /\ IdleRetry
    /\ IdleProbe
    /\ IdleOther
    /\ IdleStatus

ExtractFofaApiResults ==
    /\ xpc = "call" /\ extractor = "fofa_api"
    /\ ip_ports' = _extract_fofa_api_results(hits)
    /\ xpc' = "returned"
    /\ UNCHANGED <<extractor, hits>>
    /\ UNCHANGED nonExtractVars

ExtractQuake360Results ==
    /\ xpc = "call" /\ extractor = "quake360"
    /\ ip_ports' = _extract_quake360_results(hits)
    /\ xpc' = "returned"
    /\ UNCHANGED <<extractor, hits>>
    /\ UNCHANGED nonExtractVars

ExtractHunterResults ==
    /\ xpc = "call" /\ extractor = "hunter"
    /\ ip_ports' = _extract_hunter_results(hits)
    /\ xpc' = "returned"
    /\ UNCHANGED <<extractor, hits>>
    /\ UNCHANGED nonExtractVars

NextExtract ==
    \/ ExtractFofaApiResults
    \/ ExtractQuake360Results
    \/ ExtractHunterResults

SpecExtract == InitExtract /\ [][NextExtract]_vars

\* an "ip:port" string with a dotted-quad ip and a numeric port in 1..65535
ValidCandidate(s) ==
    LET parts == Split(s, ":")
    IN  /\ Len(parts) = 2
        /\ MatchIpv4(parts[1])
        /\ IsNumeric(parts[2])
        /\ StrToInt(parts[2]) \in 1 .. 65535

\* C19 as claimed: every candidate an extractor returns has a dotted-quad ip
\* and a numeric port in 1..65535.
C19_ExtractedCandidatesValid ==
    \A i \in 1 .. Len(ip_ports) : ValidCandidate(ip_ports[i])

---------------------------------------------------------------------------
(* SpecProbe: one call of test_stream_speed.  Sizes are in bytes and times in
   microseconds; the comparisons of the speed with 0.05 and 1000 MB/s are
   made on integers, without rounding. *)

\* chunks followed per download
MaxChunks == 3

\* max_download_size = 2 * 1024 * 1024
MaxDownloadSize == 2097152
\* max_download_time = 10 (seconds)
MaxDownloadTime == 10000000
\* `if total_size < 1024`
MinDownloadSize == 1024

\* what time.time() may have advanced by between two readings
TimeSteps == {0, 5, 156250, 6000000}

\* len(chunk) of a chunk of iter_content(chunk_size=8192)
ChunkSizes == {0, 512, 8192}

ProbeStatuses == {200, 404, 503}

\* what session.get and iter_content may raise
ProbeExceptions ==
    {"ConnectTimeout", "ReadTimeout", "ConnectionError", "ValueError"}

\* the except clauses around the download end with `except Exception`
CaughtByDownloadHandlers(exc) == TRUE

NoResult == [file_size |-> 0, duration |-> 0]

\* a faulty variant: the lower limit not applied
NeverTooSlow(size, us) == FALSE

\* `speed_mb_per_sec < 0.05`, speed_mb_per_sec being
\* size / (us / 10^6) / 1024 / 1024: size * 78125 < us * 4096
TooSlow(size, us) == (size * 78125) \div 4096 < us

\* `speed_mb_per_sec > 1000`: size * 1000 > us * 1048576
TooFast(size, us) == size >= 1 /\ us <= (size * 1000 - 1) \div 1048576

\* the statements after the download: the statistics, the checks and the
\* result dictionary
Evaluate(total_size, total_duration) ==
    IF total_duration <= 0 THEN NoResult
    ELSE IF total_size = 0 THEN NoResult
    ELSE IF total_size < MinDownloadSize THEN NoResult
    ELSE IF TooSlow(total_size, total_duration) THEN NoResult
    ELSE IF TooFast(total_size, total_duration) THEN NoResult
    ELSE [file_size |-> total_size, duration |-> total_duration]

nonProbeVars ==
    <<speedVars, dedupeVars, searchVars, runVars, verifyVars, sinkVars,
      retryVars, extractVars, otherVars, statusVars>>

InitProbe ==
    /\ ppc = "get"
    /\ status_code = 0
    /\ now = 0
    /\ downloaded_data = 0
    /\ received = 0
    /\ probe_result = NoResult
    /\ raised = FALSE
    /\ IdleSpeed /\ IdleDedupe /\ IdleSearch /\ IdleRun /\ IdleVerify
    /\ IdleSink /\ IdleRetry /\ IdleExtract
    /\ IdleOther
    /\ IdleStatus

\* an exception inside the download block: a handler returns None
ProbeException(exc) ==
    /\ IF CaughtByDownloadHandlers(exc)
       THEN probe_result' = NoResult /\ raised' = FALSE
       ELSE probe_result' = probe_result /\ raised' = TRUE
    /\ ppc' = "returned"

\* session.get(stream_url, timeout=(3, 5), stream=True) and the status_code check
StreamGet ==
    /\ ppc = "get"
    /\ \E dt \in TimeSteps :
          /\ now' = now + dt
          /\ \/ \E exc \in ProbeExceptions :
                   /\ ProbeException(exc)
                   /\ UNCHANGED status_code
             \/ \E code \in ProbeStatuses :
                   /\ status_code' = code
                   /\ IF code # 200
                      THEN ppc' = "returned" /\ probe_result' = NoResult
                      ELSE ppc' = "download" /\ probe_result' = probe_result
                   /\ UNCHANGED raised
    /\ UNCHANGED <<downloaded_data, received>>
    /\ UNCHANGED nonProbeVars

\* what follows the loop: end_time is read and the result is built
ProbeFinish(end_time, size) ==
    /\ probe_result' = Evaluate(size, end_time)
    /\ ppc' = "returned"

\* one turn of `for chunk in response.iter_content(chunk_size=8192)`; the
\* turn that meets a limit leaves the loop and the function goes to its end
NextChunk ==
    /\ ppc = "download"
    /\ received < MaxChunks
    /\ \E dt \in TimeSteps, dt_end \in TimeSteps :
          \/ \E exc \in ProbeExceptions :
                /\ now' = now + dt
                /\ ProbeException(exc)
                /\ UNCHANGED <<downloaded_data, received>>
          \/ \E chunk \in ChunkSizes :
                /\ received' = received + 1
                /\ raised' = raised
                /\ IF chunk = 0
                   THEN /\ now' = now + dt
                        /\ UNCHANGED <<downloaded_data, ppc, probe_result>>
                   ELSE /\ downloaded_data' = downloaded_data + chunk
                        /\ IF downloaded_data' >= MaxDownloadSize
                              \/ now + dt > MaxDownloadTime
                           THEN /\ now' = now + dt + dt_end
                                /\ ProbeFinish(now', downloaded_data')
                           ELSE /\ now' = now + dt
                                /\ UNCHANGED <<ppc, probe_result>>
    /\ UNCHANGED status_code
    /\ UNCHANGED nonProbeVars

\* the stream ends: iter_content is exhausted
EndOfStream ==
    /\ ppc = "download"
    /\ \E dt \in TimeSteps :
          /\ now' = now + dt
          /\ ProbeFinish(now', downloaded_data)
    /\ UNCHANGED <<status_code, downloaded_data, received, raised>>
    /\ UNCHANGED nonProbeVars

NextProbe ==
    \/ StreamGet
    \/ NextChunk
    \/ EndOfStream

SpecProbe == InitProbe /\ [][NextProbe]_vars

\* C20: test_stream_speed returns a success only if the status_code was 200, at
\* least 1024 bytes were received and the speed size/duration/1024/1024 is
\* neither below 0.05 nor above 1000 MB/s; in every other case it returns
\* None, and no exception leaves it.
C20_SuccessOnlyWithinLimits ==
    /\ ~raised
    /\ (ppc = "returned" /\ probe_result # NoResult) =>
           /\ status_code = 200
           /\ probe_result.file_size = downloaded_data
           /\ probe_result.duration = now
           /\ probe_result.file_size >= 1024
           /\ probe_result.duration > 0
           \* speed >= 0.05
           /\ (probe_result.file_size * 78125) \div 4096 >= probe_result.duration
           \* speed <= 1000
           /\ probe_result.duration > (probe_result.file_size * 1000 - 1) \div 1048576
    /\ (ppc = "returned" /\ status_code # 200) => probe_result = NoResult

\* a success at the lower edge of the speed range: 8192 bytes in 0.15625 s
\* are 0.05 MB/s
C20_Witness ==
    /\ ppc = "returned"
    /\ probe_result # NoResult
    /\ probe_result.file_size = 8192
    /\ probe_result.duration = 156250

---------------------------------------------------------------------------
(* SpecOther: test_with_other_configs called for one candidate after the
   other, over catalogs longer than the limit of tries.  A catalog is taken
   by the number of its rows that are not of the default carrier and region;
   the catalog files can be edited while the run goes on. *)

\* the longest catalog
MaxRows == 97

CatalogSizes == {0, 2, MaxRows}

\* candidates on the failed list
OtherCands == {1, 2}

nonOtherVars ==
    <<speedVars, dedupeVars, searchVars, runVars, verifyVars, sinkVars,
      retryVars, extractVars, probeVars, statusVars>>

InitOther ==
    /\ catalog_file \in CatalogSizes
    /\ cand = 1
    /\ loaded = [c \in OtherCands |-> -1]
    /\ oc_i = 0
    /\ probed = [c \in OtherCands |-> 0]
    /\ returned2 = [c \in OtherCands |-> "none"]
    /\ opc = "load"
    /\ IdleSpeed /\ IdleDedupe /\ IdleSearch /\ IdleRun /\ IdleVerify
    /\ IdleSink /\ IdleRetry /\ IdleExtract /\ IdleProbe
    /\ IdleStatus

\* all_configs = self._load_all_province_configs() and the filter: the files
\* are read again by every call.  With no remaining entry the loop body never
\* runs and the task returns None.
LoadAllProvinceConfigs ==
    /\ opc = "load"
    /\ loaded' = [loaded EXCEPT ![cand] = catalog_file]
    /\ IF catalog_file = 0
       THEN /\ returned2' = [returned2 EXCEPT ![cand] = "failed"]
            /\ opc' = "returned"
            /\ UNCHANGED oc_i
       ELSE /\ oc_i' = 1
            /\ opc' = "probe"
            /\ UNCHANGED returned2
    /\ UNCHANGED <<catalog_file, cand, probed>>
    /\ UNCHANGED nonOtherVars

\* one turn of `for i, config in enumerate(remaining_configs, 1)`
TestOtherConfig(ok) ==
    /\ opc = "probe"
    /\ probed' = [probed EXCEPT ![cand] = @ + 1]
    /\ LET step == OtherConfigsStep(oc_i, loaded[cand], ok) IN
          CASE step = "found" ->
                   /\ returned2' = [returned2 EXCEPT ![cand] = "found"]
                   /\ opc' = "returned"
                   /\ UNCHANGED oc_i
            [] step = "exhausted" ->
                   /\ returned2' = [returned2 EXCEPT ![cand] = "failed"]
                   /\ opc' = "returned"
                   /\ UNCHANGED oc_i
            [] OTHER ->
                   /\ oc_i' = oc_i + 1
                   /\ UNCHANGED <<returned2, opc>>
    /\ UNCHANGED <<catalog_file, cand, loaded>>
    /\ UNCHANGED nonOtherVars

\* the task of the next candidate of the failed list starts
NextOtherCandidate ==
    /\ opc = "returned"
    /\ cand + 1 \in OtherCands
    /\ cand' = cand + 1
    /\ opc' = "load"
    /\ oc_i' = 0
    /\ UNCHANGED <<catalog_file, loaded, probed, returned2>>
    /\ UNCHANGED nonOtherVars

\* somebody edits a *_province_list.txt file during the run
EditCatalogFile ==
    /\ opc \in {"load", "probe"}
    /\ \E n \in CatalogSizes \ {catalog_file} : catalog_file' = n
    /\ UNCHANGED <<cand, loaded, oc_i, probed, returned2, opc>>
    /\ UNCHANGED nonOtherVars

NextOther ==
    \/ LoadAllProvinceConfigs
    \/ \E ok \in BOOLEAN : TestOtherConfig(ok)
    \/ NextOtherCandidate
    \/ EditCatalogFile

SpecOther == InitOther /\ [][NextOther]_vars

\* C21: in phase 2 a candidate is probed against 96 catalog entries at most
\* and against no more entries than the catalog has; a search that has
\* failed has made exactly min(96, entries) probes, and a search that has
\* returned makes no further probe.
C21_AtMostCapProbes ==
    /\ [](\A c \in OtherCands :
             /\ probed[c] <= 96
             /\ loaded[c] >= 0 => probed[c] <= loaded[c]
             /\ returned2[c] = "failed" =>
                   probed[c] = (IF loaded[c] < 96 THEN loaded[c] ELSE 96))
    /\ [][\A c \in OtherCands :
              returned2[c] # "none" => probed'[c] = probed[c]]_vars

\* a search over a catalog of more than 96 entries has failed after 96 probes
C21_Witness ==
    \E c \in OtherCands :
        returned2[c] = "failed" /\ loaded[c] > 96 /\ probed[c] = 96

\* C24 as claimed: every candidate searched in phase 2 iterates the same list
\* of catalog entries, whatever is done to the catalog files during the run.
C24_SameCatalogForEveryCandidate ==
    \A c, d \in OtherCands :
        (loaded[c] >= 0 /\ loaded[d] >= 0) => loaded[c] = loaded[d]

---------------------------------------------------------------------------
(* SpecStatus: get_udpxy_status for one candidate that test_udpxy_service
   has classified as udpxy, and what filter_accessible_ips does with the
   answer.  A status page is taken by what the parsers look at. *)

\* what session.get and raise_for_status give
StatusResponses == {"200", "404", "timeout"}

\* the text of the fourth cell
ActvTexts == {"0", "2", "", "n/a"}

\* the number the first matching pattern of the alternative format
\* captures, -1 when no pattern matches
AltMatches == {-1, 5}

StatusPages ==
    [response : StatusResponses,
     bs4 : BOOLEAN,          \* BEAUTIFULSOUP_AVAILABLE
     soup_raises : BOOLEAN,  \* the BeautifulSoup block raises
     table : BOOLEAN,        \* soup.find('table', cellspacing='0') finds one
     tds : {0, 4},           \* number of <td> cells
     actv : ActvTexts,
     alt : AltMatches]

\* int(text): the value, -1 for ValueError
ParseInt(text) ==
    CASE text = "0" -> 0
      [] text = "2" -> 2
      [] OTHER -> -1

\* "try: actv_count = int(actv) except ValueError: actv_count = 0"
IntOrZero(text) == IF ParseInt(text) < 0 THEN 0 ELSE ParseInt(text)

Unavailable ==
    [none |-> FALSE, status_available |-> FALSE, active_connections |-> 0]

Available(n) ==
    [none |-> FALSE, status_available |-> TRUE, active_connections |-> n]

\* _parse_alternative_status_format: actv_count starts at 0 and the
\* dictionary is returned with status_available True whether or not a
\* pattern matched
ParseAlternativeStatusFormat(html) ==
    Available(IF html.alt < 0 THEN 0 ELSE html.alt)

\* _parse_status_with_regex
ParseStatusWithRegex(html) ==
    IF html.tds >= 4 THEN Available(IntOrZero(html.actv)) ELSE Unavailable

\* get_udpxy_status after the page has been fetched
ParseStatusPage(html) ==
    IF html.bs4
    THEN IF html.soup_raises THEN ParseStatusWithRegex(html)
         ELSE IF html.table
         THEN IF html.tds >= 4 THEN Available(IntOrZero(html.actv))
              ELSE Unavailable
         ELSE ParseAlternativeStatusFormat(html)
    ELSE ParseStatusWithRegex(html)

nonStatusVars ==
    <<speedVars, dedupeVars, searchVars, runVars, verifyVars, sinkVars,
      retryVars, extractVars, probeVars, otherVars>>

\* test_single_ip has found the candidate (written 1) to be udpxy and
\* calls get_udpxy_status
InitStatus ==
    /\ status_page \in StatusPages
    /\ status_info = NoneInfo
    /\ status_line = [shown |-> "none", actv |-> 0]
    /\ status_udpxy = <<>>
    /\ status_pc = "get"
    /\ IdleSpeed /\ IdleDedupe /\ IdleSearch /\ IdleRun /\ IdleVerify
    /\ IdleSink /\ IdleRetry /\ IdleExtract /\ IdleProbe /\ IdleOther

\* session.get and raise_for_status: a RequestException returns the
\* dictionary with status_available False
StatusGet ==
    /\ status_pc = "get"
    /\ IF status_page.response = "200"
       THEN /\ status_pc' = "parse"
            /\ UNCHANGED status_info
       ELSE /\ status_info' = Unavailable
            /\ status_pc' = "returned"
    /\ UNCHANGED <<status_page, status_line, status_udpxy>>
    /\ UNCHANGED nonStatusVars

\* the page is parsed and the dictionary returned
StatusParse ==
    /\ status_pc = "parse"
    /\ status_info' = ParseStatusPage(status_page)
    /\ status_pc' = "returned"
    /\ UNCHANGED <<status_page, status_line, status_udpxy>>
    /\ UNCHANGED nonStatusVars

\* filter_accessible_ips takes the result of the task: the candidate goes
\* on udpxy_ips and its line is printed with the count or "not available"
StatusCollect ==
    /\ status_pc = "returned"
    /\ status_udpxy' = Append(status_udpxy, 1)
    /\ status_line' =
          IF ~status_info.none /\ status_info.status_available
          THEN [shown |-> "count", actv |-> status_info.active_connections]
          ELSE [shown |-> "unavailable", actv |-> 0]
    /\ status_pc' = "collected"
    /\ UNCHANGED <<status_page, status_info>>
    /\ UNCHANGED nonStatusVars

NextStatus == StatusGet \/ StatusParse \/ StatusCollect

SpecStatus == InitStatus /\ [][NextStatus]_vars

---------------------------------------------------------------------------
(* Claims about the status page (specification SpecStatus) *)

\* the page was fetched and the parser that handled it read a number
CountRead(html) ==
    /\ html.response = "200"
    /\ IF html.bs4 /\ ~html.soup_raises /\ ~html.table
       THEN html.alt >= 0
       ELSE html.tds >= 4 /\ ParseInt(html.actv) >= 0

\* C25 as claimed: for a candidate classified as udpxy, a failure to fetch
\* or to parse the status page gives "status not available" and no count,
\* and the candidate stays on the list of verified services.
C25_UnknownOnStatusFailure ==
    status_pc = "collected" =>
        /\ status_udpxy = <<1>>
        /\ ~CountRead(status_page) => status_line.shown = "unavailable"

=============================================================================
